---- MODULE Spec2Model ----
(***************************************************************************)
(* Admission pipeline of the KeePass Telegram bot: RateLimiter             *)
(* (rate_limiter.py), Email2FA (email_auth.py), CSRFManager                *)
(* (csrf_manager.py), AuthManager (auth.py) and the handlers of bot.py.    *)
(*                                                                         *)
(* Time is a count of ticks, TicksPerSec ticks to the second, so that the  *)
(* truncations of the code (strftime to whole seconds, int() of a wait)    *)
(* are visible.  Strings are sequences of symbols.                         *)
(***************************************************************************)
EXTENDS Integers, Sequences, FiniteSets, TLC

(* ------------------------------ bounds -------------------------------- *)
\* clock resolution of the model
TicksPerSec == 2
\* RateLimiter harness: check calls on the probed slot between resets, and
\* clock advances
MaxCalls == 12
MaxTicksRL == 2
\* Email2FA harness: verify calls per challenge, clock advances
MaxVerifies == 4
MaxTicks2FA == 2
\* CSRFManager harness: clock advances
MaxTicksCSRF == 2
\* the bot: updates handled, clock advances
MaxSteps == 5
MaxTicks == 1
\* AuthManager harness: clock advances
MaxTicksAuth == 1
\* admission harness: updates handled, clock advances
MaxTexts == 12
MaxTicksTM == 1

(* ------------------------- program constants -------------------------- *)
max_pin_attempts == 5
max_twofa_attempts == 3
max_requests_per_minute == 10
pin_lockout_duration == 300
twofa_lockout_duration == 180
request_window == 60
code_length == 6
code_expiry_minutes == 60
max_attempts == 3
token_lifetime == 3600
max_message_length == 1000

ADMIN_USER_ID == 1
ACCESS_PIN == <<"1", "2", "3", "4">>
\* all([ADMIN_EMAIL, SMTP_SERVER, SMTP_USERNAME, SMTP_PASSWORD])
email_configured == TRUE
Principals == {1, 2}

\* None, which like the empty string is false in a condition
None == <<>>

VARIABLES
    now,              \* the clock (time.time() / datetime.now()), in ticks
    nticks,           \* history: clock advances so far
    pin_attempts,     \* RateLimiter.pin_attempts: principal -> timestamps
    twofa_attempts,   \* RateLimiter.twofa_attempts
    request_counts,   \* RateLimiter.request_counts
    rl_result,        \* dict returned by the last RateLimiter check
    calls,            \* history: per slot, the check calls since its last reset
    probe,            \* history: the slot or principal a run exercises
    codes_data,       \* Email2FA.codes_data["codes"]: principal -> challenge
    codes_file,       \* content of pending_codes.json
    fa_result,        \* value returned by the last Email2FA call
    fa_hist,          \* history: per principal, the verifies since the last issue
    user_tokens,      \* CSRFManager.user_tokens: principal -> token
    token_expiry,     \* CSRFManager.token_expiry: principal -> time
    csrf_result,      \* value returned by the last CSRFManager call
    csrf_hist,        \* history: tokens generated, and the last extract call
    allowed_users,    \* AuthManager.allowed_users: users and pending_requests
    users_file,       \* content of allowed_users.json
    auth_result,      \* value returned by the last AuthManager call
    user_data,        \* context.user_data of each principal: the waiting flags
    reply,            \* the answer of the bot to the update it handled last
    notify,           \* the message the last handler sent to another chat
    logged,           \* the security event the last handler logged
    stage,            \* history: how far each principal went through admission
    last,             \* history: the action the last update, a callback query, was unbound to
    flow,             \* history: per principal, the texts since a correct gate secret
    nsteps,           \* history: updates handled so far
    inflight,         \* the handler that is suspended at an await, if any
    search_results,   \* bot.search_results: principal -> the entries cached for it
    current_page      \* bot.current_page: principal -> the page shown last

clockVars == <<now, nticks>>
rlVars == <<pin_attempts, twofa_attempts, request_counts>>
rlHarness == <<rl_result, calls, probe>>
faVars == <<codes_data, codes_file>>
faHarness == <<fa_result, fa_hist>>
csrfVars == <<user_tokens, token_expiry>>
csrfHarness == <<csrf_result, csrf_hist>>
authVars == <<allowed_users, users_file>>
authHarness == <<auth_result>>
botVars == <<user_data, reply, notify, logged, search_results, current_page>>
histVars == <<stage, last, flow, nsteps>>
loopVars == <<inflight>>
pipeVars == <<authVars, authHarness, botVars, histVars, loopVars>>
vars == <<clockVars, rlVars, rlHarness, faVars, faHarness, csrfVars,
          csrfHarness, pipeVars>>

(* ------------------------------ helpers ------------------------------- *)
Sec(s) == s * TicksPerSec

Range(s) == {s[i] : i \in DOMAIN s}

\* min() of a non-empty list
Min(s) == CHOOSE m \in Range(s) : \A x \in Range(s) : m <= x

\* a dict as a function on its keys: d[k] = v and del d[k]
DictSet(d, k, v) == [x \in DOMAIN d \cup {k} |-> IF x = k THEN v ELSE d[x]]

DictDel(d, k) == [x \in DOMAIN d \ {k} |-> d[x]]

\* int() of a non-negative number of seconds held in ticks
IntSeconds(ticks) == ticks \div TicksPerSec

\* strings are sequences of symbols; a digit is one symbol
Digits == {"0", "1", "2", "3", "4", "5", "6", "7", "8", "9"}

IsDigits(s) == \A i \in DOMAIN s : s[i] \in Digits

\* str(n) of a number below ten, and int(s) of a one-digit string
str(n) == <<"0", "1", "2", "3", "4", "5", "6", "7", "8", "9">>[n + 1]

int(d) == CHOOSE n \in 0..9 : str(n) = d

\* text.lower()
lower(s) == [i \in DOMAIN s |-> IF s[i] = "RESEND" THEN "resend" ELSE s[i]]

(* ---------------------------- RateLimiter ----------------------------- *)
Categories == {"pin", "twofa", "request"}

\* mutant: the limit is compared with > instead of >=
check_pin_rate_limit_gt(user_attempts, t) ==
    LET kept == SelectSeq(user_attempts,
                          LAMBDA a : t - a < Sec(pin_lockout_duration))
    IN  IF Len(kept) > max_pin_attempts
        THEN [allowed |-> FALSE, attempts |-> kept,
              remaining_time |->
                  IntSeconds(Sec(pin_lockout_duration) - (t - Min(kept)))]
        ELSE [allowed |-> TRUE, attempts |-> Append(kept, t),
              remaining_attempts |-> max_pin_attempts - (Len(kept) + 1)]

\* check_pin_rate_limit on the list of one user at time t
check_pin_rate_limit(user_attempts, t) ==
    LET kept == SelectSeq(user_attempts,
                          LAMBDA a : t - a < Sec(pin_lockout_duration))
    IN  IF Len(kept) >= max_pin_attempts
        THEN [allowed |-> FALSE, attempts |-> kept,
              remaining_time |->
                  IntSeconds(Sec(pin_lockout_duration) - (t - Min(kept)))]
        ELSE [allowed |-> TRUE, attempts |-> Append(kept, t),
              remaining_attempts |-> max_pin_attempts - (Len(kept) + 1)]

\* mutant: the list is pruned with the window of another category
check_twofa_rate_limit_window(user_attempts, t) ==
    LET kept == SelectSeq(user_attempts,
                          LAMBDA a : t - a < Sec(request_window))
    IN  IF Len(kept) >= max_twofa_attempts
        THEN [allowed |-> FALSE, attempts |-> kept,
              remaining_time |->
                  IntSeconds(Sec(twofa_lockout_duration) - (t - Min(kept)))]
        ELSE [allowed |-> TRUE, attempts |-> Append(kept, t),
              remaining_attempts |-> max_twofa_attempts - (Len(kept) + 1)]

check_twofa_rate_limit(user_attempts, t) ==
    LET kept == SelectSeq(user_attempts,
                          LAMBDA a : t - a < Sec(twofa_lockout_duration))
    IN  IF Len(kept) >= max_twofa_attempts
        THEN [allowed |-> FALSE, attempts |-> kept,
              remaining_time |->
                  IntSeconds(Sec(twofa_lockout_duration) - (t - Min(kept)))]
        ELSE [allowed |-> TRUE, attempts |-> Append(kept, t),
              remaining_attempts |-> max_twofa_attempts - (Len(kept) + 1)]

\* mutant: a timestamp exactly one window old is kept
check_request_rate_limit_le(user_requests, t) ==
    LET kept == SelectSeq(user_requests,
                          LAMBDA a : t - a <= Sec(request_window))
    IN  IF Len(kept) >= max_requests_per_minute
        THEN [allowed |-> FALSE, attempts |-> kept,
              remaining_time |->
                  IntSeconds(Sec(request_window) - (t - Min(kept)))]
        ELSE [allowed |-> TRUE, attempts |-> Append(kept, t),
              remaining_requests |-> max_requests_per_minute - (Len(kept) + 1)]

check_request_rate_limit(user_requests, t) ==
    LET kept == SelectSeq(user_requests,
                          LAMBDA a : t - a < Sec(request_window))
    IN  IF Len(kept) >= max_requests_per_minute
        THEN [allowed |-> FALSE, attempts |-> kept,
              remaining_time |->
                  IntSeconds(Sec(request_window) - (t - Min(kept)))]
        ELSE [allowed |-> TRUE, attempts |-> Append(kept, t),
              remaining_requests |-> max_requests_per_minute - (Len(kept) + 1)]

\* mutant: the entry of the user is kept
reset_pin_attempts_kept(attempts, u) == attempts

\* reset_pin_attempts / reset_twofa_attempts: the user's entry is deleted
reset_pin_attempts(attempts, u) == [attempts EXCEPT ![u] = <<>>]

reset_twofa_attempts(attempts, u) == [attempts EXCEPT ![u] = <<>>]

\* window length (ticks) and maximum of a category
Window(c) ==
    CASE c = "pin" -> Sec(pin_lockout_duration)
      [] c = "twofa" -> Sec(twofa_lockout_duration)
      [] c = "request" -> Sec(request_window)

MaxOf(c) ==
    CASE c = "pin" -> max_pin_attempts
      [] c = "twofa" -> max_twofa_attempts
      [] c = "request" -> max_requests_per_minute

(* ------------------------------ Email2FA ------------------------------ *)
\* user.username of a principal
Username(u) == <<"user", str(u)>>

\* _generate_code: code_length random digits (here: one digit repeated)
CodeDigits == {"1", "2"}

GeneratedCodes == {[i \in 1..code_length |-> d] : d \in CodeDigits}

\* strftime("%Y-%m-%d %H:%M:%S") followed by strptime: the time cut down to
\* its whole second
WholeSecond(t) == (t \div TicksPerSec) * TicksPerSec

\* _save_codes: the file takes the content of codes_data
_save_codes(data) == data

\* mutant: a challenge counts as expired at its expiry already
_is_code_expired_ge(expires_at, t) == t >= expires_at

\* _is_code_expired(expires_at) at time t
_is_code_expired(expires_at, t) == t > expires_at

\* mutant: the cleanup also removes a challenge that is at its expiry
_cleanup_expired_codes_ge(st, t) ==
    LET expired_users == {p \in DOMAIN st.codes :
                            _is_code_expired_ge(st.codes[p].expires_at, t)}
        kept == [p \in DOMAIN st.codes \ expired_users |-> st.codes[p]]
    IN  IF expired_users # {}
        THEN [codes |-> kept, file |-> _save_codes(kept)]
        ELSE st

\* _cleanup_expired_codes at time t, on the state [codes, file]
_cleanup_expired_codes(st, t) ==
    LET expired_users == {p \in DOMAIN st.codes :
                            _is_code_expired(st.codes[p].expires_at, t)}
        kept == [p \in DOMAIN st.codes \ expired_users |-> st.codes[p]]
    IN  IF expired_users # {}
        THEN [codes |-> kept, file |-> _save_codes(kept)]
        ELSE st

\* mutant: a challenge whose delivery failed stays on file
send_verification_code_kept(st, u, username, t, code, sent) ==
    LET c == _cleanup_expired_codes(st, t)
        stored == DictSet(c.codes, u,
                      [code |-> code,
                       expires_at |-> WholeSecond(t + Sec(code_expiry_minutes * 60)),
                       attempts |-> 0,
                       max_attempts |-> max_attempts,
                       username |-> username])
    IN  [codes |-> stored, file |-> _save_codes(stored),
         ret |-> IF sent THEN code ELSE None]

\* mutant: a challenge already on file is not replaced by the new one
send_verification_code_first(st, u, username, t, code, sent) ==
    LET c == _cleanup_expired_codes(st, t)
        stored == IF u \in DOMAIN c.codes
                  THEN c.codes
                  ELSE DictSet(c.codes, u,
                          [code |-> code,
                           expires_at |-> WholeSecond(t + Sec(code_expiry_minutes * 60)),
                           attempts |-> 0,
                           max_attempts |-> max_attempts,
                           username |-> username])
        dropped == DictDel(stored, u)
    IN  IF sent
        THEN [codes |-> stored, file |-> _save_codes(stored), ret |-> code]
        ELSE [codes |-> dropped, file |-> _save_codes(dropped), ret |-> None]

\* send_verification_code(user_id, username, ...) at time t; code is the
\* generated code, sent tells whether the SMTP delivery went through
send_verification_code(st, u, username, t, code, sent) ==
    LET c == _cleanup_expired_codes(st, t)
        stored == DictSet(c.codes, u,
                      [code |-> code,
                       expires_at |-> WholeSecond(t + Sec(code_expiry_minutes * 60)),
                       attempts |-> 0,
                       max_attempts |-> max_attempts,
                       username |-> username])
        dropped == DictDel(stored, u)
    IN  IF sent
        THEN [codes |-> stored, file |-> _save_codes(stored), ret |-> code]
        ELSE [codes |-> dropped, file |-> _save_codes(dropped), ret |-> None]

\* mutant: a matching code is accepted but the challenge stays on file
verify_code_keep(st, u, input_code, t) ==
    IF u \notin DOMAIN st.codes
    THEN [codes |-> st.codes, file |-> st.file,
          ret |-> [success |-> FALSE, message |-> <<"not_found">>, can_retry |-> FALSE]]
    ELSE
    LET code_info == st.codes[u]
        dropped == DictDel(st.codes, u)
        bumped == [st.codes EXCEPT ![u].attempts = @ + 1]
        remaining_attempts == code_info.max_attempts - (code_info.attempts + 1)
    IN  IF _is_code_expired(code_info.expires_at, t)
        THEN [codes |-> dropped, file |-> _save_codes(dropped),
              ret |-> [success |-> FALSE, message |-> <<"expired">>, can_retry |-> FALSE]]
        ELSE IF code_info.attempts >= code_info.max_attempts
        THEN [codes |-> dropped, file |-> _save_codes(dropped),
              ret |-> [success |-> FALSE, message |-> <<"exhausted">>, can_retry |-> FALSE]]
        ELSE IF input_code = code_info.code
        THEN [codes |-> st.codes, file |-> st.file,
              ret |-> [success |-> TRUE, message |-> <<"confirmed">>, can_retry |-> FALSE]]
        ELSE IF remaining_attempts > 0
        THEN [codes |-> bumped, file |-> _save_codes(bumped),
              ret |-> [success |-> FALSE, message |-> <<"wrong", str(remaining_attempts)>>,
                       can_retry |-> TRUE]]
        ELSE [codes |-> dropped, file |-> _save_codes(dropped),
              ret |-> [success |-> FALSE, message |-> <<"exhausted">>, can_retry |-> FALSE]]

\* mutant: the last wrong attempt leaves the challenge on file
verify_code_nodrop(st, u, input_code, t) ==
    IF u \notin DOMAIN st.codes
    THEN [codes |-> st.codes, file |-> st.file,
          ret |-> [success |-> FALSE, message |-> <<"not_found">>, can_retry |-> FALSE]]
    ELSE
    LET code_info == st.codes[u]
        dropped == DictDel(st.codes, u)
        bumped == [st.codes EXCEPT ![u].attempts = @ + 1]
        remaining_attempts == code_info.max_attempts - (code_info.attempts + 1)
    IN  IF _is_code_expired(code_info.expires_at, t)
        THEN [codes |-> dropped, file |-> _save_codes(dropped),
              ret |-> [success |-> FALSE, message |-> <<"expired">>, can_retry |-> FALSE]]
        ELSE IF input_code = code_info.code
        THEN [codes |-> dropped, file |-> _save_codes(dropped),
              ret |-> [success |-> TRUE, message |-> <<"confirmed">>, can_retry |-> FALSE]]
        ELSE IF remaining_attempts > 0
        THEN [codes |-> bumped, file |-> _save_codes(bumped),
              ret |-> [success |-> FALSE, message |-> <<"wrong", str(remaining_attempts)>>,
                       can_retry |-> TRUE]]
        ELSE [codes |-> bumped, file |-> _save_codes(bumped),
              ret |-> [success |-> FALSE, message |-> <<"exhausted">>, can_retry |-> FALSE]]

\* verify_code(user_id, input_code) at time t
verify_code(st, u, input_code, t) ==
    IF u \notin DOMAIN st.codes
    THEN [codes |-> st.codes, file |-> st.file,
          ret |-> [success |-> FALSE, message |-> <<"not_found">>, can_retry |-> FALSE]]
    ELSE
    LET code_info == st.codes[u]
        dropped == DictDel(st.codes, u)
        bumped == [st.codes EXCEPT ![u].attempts = @ + 1]
        remaining_attempts == code_info.max_attempts - (code_info.attempts + 1)
    IN  IF _is_code_expired(code_info.expires_at, t)
        THEN [codes |-> dropped, file |-> _save_codes(dropped),
              ret |-> [success |-> FALSE, message |-> <<"expired">>, can_retry |-> FALSE]]
        ELSE IF code_info.attempts >= code_info.max_attempts
        THEN [codes |-> dropped, file |-> _save_codes(dropped),
              ret |-> [success |-> FALSE, message |-> <<"exhausted">>, can_retry |-> FALSE]]
        ELSE IF input_code = code_info.code
        THEN [codes |-> dropped, file |-> _save_codes(dropped),
              ret |-> [success |-> TRUE, message |-> <<"confirmed">>, can_retry |-> FALSE]]
        ELSE IF remaining_attempts > 0
        THEN [codes |-> bumped, file |-> _save_codes(bumped),
              ret |-> [success |-> FALSE, message |-> <<"wrong", str(remaining_attempts)>>,
                       can_retry |-> TRUE]]
        ELSE [codes |-> dropped, file |-> _save_codes(dropped),
              ret |-> [success |-> FALSE, message |-> <<"exhausted">>, can_retry |-> FALSE]]

\* mutant: a resend whose delivery failed puts the old challenge back
resend_code_restored(st, u, username, t, code, sent) ==
    LET dropped == DictDel(st.codes, u)
        cleared == IF u \in DOMAIN st.codes
                   THEN [codes |-> dropped, file |-> _save_codes(dropped)]
                   ELSE st
        r == send_verification_code(cleared, u, username, t, code, sent)
    IN  IF r.ret = None
        THEN [codes |-> st.codes, file |-> st.file, ret |-> None]
        ELSE r

\* resend_code(user_id, username, ...) at time t
resend_code(st, u, username, t, code, sent) ==
    LET dropped == DictDel(st.codes, u)
        cleared == IF u \in DOMAIN st.codes
                   THEN [codes |-> dropped, file |-> _save_codes(dropped)]
                   ELSE st
    IN  send_verification_code(cleared, u, username, t, code, sent)

(* ---------------------------- CSRFManager ----------------------------- *)
\* the separator "|csrf:" between an action and its token, one symbol
Delim == "|csrf:"

\* "|csrf:" in callback_data
HasDelim(s) == \E i \in DOMAIN s : s[i] = Delim

\* mutant: the split at the first separator
rsplit_first(s) ==
    LET i == CHOOSE k \in DOMAIN s :
                 s[k] = Delim /\ \A j \in DOMAIN s : s[j] = Delim => k <= j
    IN  [data |-> SubSeq(s, 1, i - 1), token_part |-> SubSeq(s, i + 1, Len(s))]

\* callback_data.rsplit("|csrf:", 1): the split at the last separator
rsplit(s) ==
    LET i == CHOOSE k \in DOMAIN s :
                 s[k] = Delim /\ \A j \in DOMAIN s : s[j] = Delim => j <= k
    IN  [data |-> SubSeq(s, 1, i - 1), token_part |-> SubSeq(s, i + 1, Len(s))]

\* secrets.token_urlsafe: a random string without the separator
Tokens == {<<"A">>, <<"B">>}

\* generate_token(user_id) at time t, on the state [tokens, expiry]; token is
\* the random string drawn
generate_token(cs, u, t, token) ==
    [tokens |-> DictSet(cs.tokens, u, token),
     expiry |-> DictSet(cs.expiry, u, t + Sec(token_lifetime)),
     ret |-> token]

_cleanup_user_token(cs, u) ==
    [tokens |-> DictDel(cs.tokens, u), expiry |-> DictDel(cs.expiry, u)]

\* mutant: the expiry of the token is not looked at
validate_token_noexpiry(cs, u, token, t) ==
    IF u \notin DOMAIN cs.tokens
    THEN [tokens |-> cs.tokens, expiry |-> cs.expiry, ret |-> FALSE]
    ELSE IF cs.tokens[u] # token
    THEN [tokens |-> cs.tokens, expiry |-> cs.expiry, ret |-> FALSE]
    ELSE [tokens |-> cs.tokens, expiry |-> cs.expiry, ret |-> TRUE]

\* mutant: a token is dropped once it has been validated
validate_token_once(cs, u, token, t) ==
    IF u \notin DOMAIN cs.tokens
    THEN [tokens |-> cs.tokens, expiry |-> cs.expiry, ret |-> FALSE]
    ELSE IF t > cs.expiry[u]
    THEN [tokens |-> _cleanup_user_token(cs, u).tokens,
          expiry |-> _cleanup_user_token(cs, u).expiry, ret |-> FALSE]
    ELSE IF cs.tokens[u] # token
    THEN [tokens |-> cs.tokens, expiry |-> cs.expiry, ret |-> FALSE]
    ELSE [tokens |-> _cleanup_user_token(cs, u).tokens,
          expiry |-> _cleanup_user_token(cs, u).expiry, ret |-> TRUE]

\* validate_token(user_id, token) at time t
validate_token(cs, u, token, t) ==
    IF u \notin DOMAIN cs.tokens
    THEN [tokens |-> cs.tokens, expiry |-> cs.expiry, ret |-> FALSE]
    ELSE IF t > cs.expiry[u]
    THEN [tokens |-> _cleanup_user_token(cs, u).tokens,
          expiry |-> _cleanup_user_token(cs, u).expiry, ret |-> FALSE]
    ELSE IF cs.tokens[u] # token
    THEN [tokens |-> cs.tokens, expiry |-> cs.expiry, ret |-> FALSE]
    ELSE [tokens |-> cs.tokens, expiry |-> cs.expiry, ret |-> TRUE]

\* mutant: a token is handed out whatever its expiry
get_user_token_stale(cs, u, t) ==
    IF u \notin DOMAIN cs.tokens
    THEN [tokens |-> cs.tokens, expiry |-> cs.expiry, ret |-> None]
    ELSE [tokens |-> cs.tokens, expiry |-> cs.expiry, ret |-> cs.tokens[u]]

\* get_user_token(user_id) at time t
get_user_token(cs, u, t) ==
    IF u \notin DOMAIN cs.tokens
    THEN [tokens |-> cs.tokens, expiry |-> cs.expiry, ret |-> None]
    ELSE IF t > cs.expiry[u]
    THEN [tokens |-> _cleanup_user_token(cs, u).tokens,
          expiry |-> _cleanup_user_token(cs, u).expiry, ret |-> None]
    ELSE [tokens |-> cs.tokens, expiry |-> cs.expiry, ret |-> cs.tokens[u]]

\* add_csrf_to_callback_data(user_id, callback_data) at time t; token is the
\* random string drawn if one has to be generated
add_csrf_to_callback_data(cs, u, callback_data, t, token) ==
    LET g == get_user_token(cs, u, t)
        n == IF g.ret = None
             THEN generate_token([tokens |-> g.tokens, expiry |-> g.expiry],
                                 u, t, token)
             ELSE g
    IN  [tokens |-> n.tokens, expiry |-> n.expiry,
         ret |-> callback_data \o <<Delim>> \o n.ret]

\* mutant: the token part is cut off and not validated
extract_callback_data_unchecked(cs, u, callback_data, t) ==
    IF ~HasDelim(callback_data)
    THEN [tokens |-> cs.tokens, expiry |-> cs.expiry, ret |-> None]
    ELSE [tokens |-> cs.tokens, expiry |-> cs.expiry,
          ret |-> <<rsplit(callback_data).data>>]

\* extract_callback_data(user_id, callback_data) at time t; the result is
\* None or <<data>>, the string returned (which may be the empty string)
extract_callback_data(cs, u, callback_data, t) ==
    IF ~HasDelim(callback_data)
    THEN [tokens |-> cs.tokens, expiry |-> cs.expiry, ret |-> None]
    ELSE LET p == rsplit(callback_data)
             v == validate_token(cs, u, p.token_part, t)
         IN  IF ~v.ret
             THEN [tokens |-> v.tokens, expiry |-> v.expiry, ret |-> None]
             ELSE [tokens |-> v.tokens, expiry |-> v.expiry, ret |-> <<p.data>>]

(* ---------------------------- AuthManager ----------------------------- *)
\* the state of AuthManager is [mem, file]: allowed_users, with its lists
\* users and pending_requests, and the content of allowed_users.json

\* user ids of a list of records
Ids(list) == {list[i].user_id : i \in DOMAIN list}

\* what a write of allowed_users.json comes to: the dump goes through; or
\* open(file, 'w') raises IOError and the file is left alone; or the file is
\* opened, which empties it, and the dump raises IOError before its end
WriteOutcomes == {"ok", "open_failed", "write_failed"}

\* content of a file whose dump did not go through to its end
Partial == [partial |-> TRUE]

\* _save_allowed_users with the outcome w: the new content of the file; the
\* IOError is caught and logged
_save_allowed_users(mem, file, w) ==
    IF w = "ok" THEN mem
    ELSE IF w = "open_failed" THEN file
    ELSE Partial

is_user_allowed(mem, u) == \E i \in DOMAIN mem.users : mem.users[i].user_id = u

\* add_user_request without the look for a request already made
add_user_request_again(au, u, username, t, w) ==
    LET m == [au.mem EXCEPT !.pending_requests =
                 Append(@, [user_id |-> u, username |-> username,
                            timestamp |-> t])]
    IN  [mem |-> m, file |-> _save_allowed_users(m, au.file, w)]

\* add_user_request(user_id, username) at time t
add_user_request(au, u, username, t, w) ==
    IF u \in Ids(au.mem.pending_requests)
    THEN au
    ELSE LET m == [au.mem EXCEPT !.pending_requests =
                      Append(@, [user_id |-> u, username |-> username,
                                 timestamp |-> t])]
         IN  [mem |-> m, file |-> _save_allowed_users(m, au.file, w)]

\* approve_user without the look for a user already allowed
approve_user_twice(au, u, username, t, w) ==
    LET kept == SelectSeq(au.mem.pending_requests, LAMBDA req : req.user_id # u)
        added == [au.mem EXCEPT !.pending_requests = kept,
                                !.users =
                                    Append(@, [user_id |-> u,
                                               username |-> username,
                                               approved_at |-> t])]
    IN  [mem |-> added, file |-> _save_allowed_users(added, au.file, w),
         ret |-> TRUE]

\* approve_user(user_id, username) at time t
approve_user(au, u, username, t, w) ==
    LET kept == SelectSeq(au.mem.pending_requests, LAMBDA req : req.user_id # u)
        m == [au.mem EXCEPT !.pending_requests = kept]
        added == [m EXCEPT !.users =
                     Append(@, [user_id |-> u, username |-> username,
                                approved_at |-> t])]
    IN  IF ~is_user_allowed(m, u)
        THEN [mem |-> added, file |-> _save_allowed_users(added, au.file, w),
              ret |-> TRUE]
        ELSE [mem |-> m, file |-> au.file, ret |-> FALSE]

\* deny_user without the comparison of the lengths
deny_user_always(au, u, username, w) ==
    LET kept == SelectSeq(au.mem.pending_requests, LAMBDA req : req.user_id # u)
        m == [au.mem EXCEPT !.pending_requests = kept]
    IN  [mem |-> m, file |-> _save_allowed_users(m, au.file, w), ret |-> TRUE]

\* deny_user(user_id, username)
deny_user(au, u, username, w) ==
    LET kept == SelectSeq(au.mem.pending_requests, LAMBDA req : req.user_id # u)
        m == [au.mem EXCEPT !.pending_requests = kept]
    IN  IF Len(kept) < Len(au.mem.pending_requests)
        THEN [mem |-> m, file |-> _save_allowed_users(m, au.file, w), ret |-> TRUE]
        ELSE [mem |-> m, file |-> au.file, ret |-> FALSE]

\* revoke_user_access that filters the requests as well
revoke_user_access_requests(au, u, w) ==
    LET kept == SelectSeq(au.mem.users, LAMBDA user : user.user_id # u)
        m == [users |-> kept,
              pending_requests |->
                  SelectSeq(au.mem.pending_requests,
                            LAMBDA req : req.user_id # u)]
    IN  IF Len(kept) < Len(au.mem.users)
        THEN [mem |-> m, file |-> _save_allowed_users(m, au.file, w), ret |-> TRUE]
        ELSE [mem |-> m, file |-> au.file, ret |-> FALSE]

\* revoke_user_access(user_id)
revoke_user_access(au, u, w) ==
    LET kept == SelectSeq(au.mem.users, LAMBDA user : user.user_id # u)
        m == [au.mem EXCEPT !.users = kept]
    IN  IF Len(kept) < Len(au.mem.users)
        THEN [mem |-> m, file |-> _save_allowed_users(m, au.file, w), ret |-> TRUE]
        ELSE [mem |-> m, file |-> au.file, ret |-> FALSE]

\* the username a decision handler finds for its target: the one of the
\* pending request (or of the approved user), else the default
UsernameIn(list, target) ==
    IF target \in Ids(list)
    THEN list[CHOOSE i \in DOMAIN list :
                 list[i].user_id = target
                 /\ \A j \in DOMAIN list : list[j].user_id = target => i <= j].username
    ELSE <<"unknown">>

(* --------------------------- InputValidator --------------------------- *)
validate_message_length(message) ==
    message # <<>> /\ Len(message) <= max_message_length

\* pin_pattern ^[0-9]{4,10}$
validate_pin_code(pin) ==
    pin # <<>> /\ IsDigits(pin) /\ Len(pin) >= 4 /\ Len(pin) <= 10

\* twofa_code_pattern ^[0-9]{6}$
validate_twofa_code(code) ==
    code # <<>> /\ IsDigits(code) /\ Len(code) = 6

(* ------------------------------- Init --------------------------------- *)
InitClock ==
    /\ now = 0
    /\ nticks = 0

InitRateLimiter ==
    /\ pin_attempts = [u \in Principals |-> <<>>]
    /\ twofa_attempts = [u \in Principals |-> <<>>]
    /\ request_counts = [u \in Principals |-> <<>>]
    /\ rl_result = None
    /\ calls = [u \in Principals |-> [c \in Categories |-> <<>>]]

NoHist == [code |-> None, expires_at |-> 0, right |-> 0, wrong |-> 0,
           ok |-> 0, last |-> <<>>, failed |-> FALSE]

InitEmail2FA ==
    /\ codes_data = <<>>
    /\ codes_file = <<>>
    /\ fa_result = None
    /\ fa_hist = [u \in Principals |-> NoHist]

InitCSRF ==
    /\ user_tokens = <<>>
    /\ token_expiry = <<>>
    /\ csrf_result = None
    /\ csrf_hist = [issued |-> [u \in Principals |-> None], call |-> <<>>]

InitAuth ==
    /\ allowed_users = [users |-> <<>>, pending_requests |-> <<>>]
    /\ users_file = [users |-> <<>>, pending_requests |-> <<>>]
    /\ auth_result = None

NoReply == [to |-> 0, kind |-> "none", message |-> <<>>, n |-> 0]

NoStage == [gate |-> FALSE, verified |-> FALSE, granted |-> FALSE,
            resolved |-> FALSE]

InitBot ==
    /\ user_data = [u \in Principals |->
                       [waiting_for_pin |-> FALSE,
                        waiting_for_email_code |-> FALSE]]
    /\ reply = NoReply
    /\ notify = NoReply
    /\ logged = None
    /\ stage = [u \in Principals |-> NoStage]
    /\ last = None
    /\ flow = [u \in Principals |-> <<>>]
    /\ nsteps = 0
    /\ inflight = None
    /\ search_results = <<>>
    /\ current_page = <<>>

Init ==
    /\ InitClock
    /\ InitRateLimiter
    /\ InitEmail2FA
    /\ InitCSRF
    /\ InitAuth
    /\ InitBot
    /\ probe \in [u : Principals, c : {"bot"}]

(* ----------------------- RateLimiter harness -------------------------- *)
InitRL ==
    /\ InitClock
    /\ InitRateLimiter
    /\ InitEmail2FA
    /\ InitCSRF
    /\ InitAuth
    /\ InitBot
    /\ probe \in [u : Principals, c : Categories]

\* a run of the harness exercises one slot, the probed one, with up to
\* MaxCalls checks between resets
Slots == [u : Principals, c : Categories]

MayCall(u, c) ==
    /\ probe = [u |-> u, c |-> c]
    /\ Len(calls[u][c]) < MaxCalls

Logged(u, c, r) ==
    [calls EXCEPT ![u][c] = Append(@, [t |-> now, allowed |-> r.allowed])]

CheckPin(u) ==
    /\ MayCall(u, "pin")
    /\ LET r == check_pin_rate_limit(pin_attempts[u], now)
       IN  /\ pin_attempts' = [pin_attempts EXCEPT ![u] = r.attempts]
           /\ rl_result' = [r EXCEPT !.attempts = None]
           /\ calls' = Logged(u, "pin", r)
    /\ UNCHANGED <<clockVars, twofa_attempts, request_counts, probe, faVars, faHarness, csrfVars, csrfHarness, pipeVars>>

CheckTwofa(u) ==
    /\ MayCall(u, "twofa")
    /\ LET r == check_twofa_rate_limit(twofa_attempts[u], now)
       IN  /\ twofa_attempts' = [twofa_attempts EXCEPT ![u] = r.attempts]
           /\ rl_result' = [r EXCEPT !.attempts = None]
           /\ calls' = Logged(u, "twofa", r)
    /\ UNCHANGED <<clockVars, pin_attempts, request_counts, probe, faVars, faHarness, csrfVars, csrfHarness, pipeVars>>

CheckRequest(u) ==
    /\ MayCall(u, "request")
    /\ LET r == check_request_rate_limit(request_counts[u], now)
       IN  /\ request_counts' = [request_counts EXCEPT ![u] = r.attempts]
           /\ rl_result' = [r EXCEPT !.attempts = None]
           /\ calls' = Logged(u, "request", r)
    /\ UNCHANGED <<clockVars, pin_attempts, twofa_attempts, probe, faVars, faHarness, csrfVars, csrfHarness, pipeVars>>

ResetPin(u) ==
    /\ pin_attempts' = reset_pin_attempts(pin_attempts, u)
    /\ calls' = [calls EXCEPT ![u]["pin"] = <<>>]
    /\ UNCHANGED <<clockVars, twofa_attempts, request_counts, rl_result, probe, faVars, faHarness, csrfVars, csrfHarness, pipeVars>>

ResetTwofa(u) ==
    /\ twofa_attempts' = reset_twofa_attempts(twofa_attempts, u)
    /\ calls' = [calls EXCEPT ![u]["twofa"] = <<>>]
    /\ UNCHANGED <<clockVars, pin_attempts, request_counts, rl_result, probe, faVars, faHarness, csrfVars, csrfHarness, pipeVars>>

\* the clock advances by one tick, or to one tick before / exactly one
\* window of the probed category
DeltasRL == {1, Window(probe.c) - 1, Window(probe.c)}

TickRL(d) ==
    /\ nticks < MaxTicksRL
    /\ now' = now + d
    /\ nticks' = nticks + 1
    /\ UNCHANGED <<rlVars, rlHarness, faVars, faHarness, csrfVars, csrfHarness, pipeVars>>

NextRL ==
    \/ \E u \in Principals : CheckPin(u)
    \/ \E u \in Principals : CheckTwofa(u)
    \/ \E u \in Principals : CheckRequest(u)
    \/ \E u \in Principals : ResetPin(u)
    \/ \E u \in Principals : ResetTwofa(u)
    \/ \E d \in DeltasRL : TickRL(d)

SpecRL == InitRL /\ [][NextRL]_vars

\* the check calls of one slot since its last reset, oldest first
Log(s) == calls[s.u][s.c]

\* call i of the slot found its window empty: no earlier allowed call of the
\* log is less than a window old
StartsEmpty(s, i) ==
    \A k \in 1..(i - 1) :
        Log(s)[k].allowed => Log(s)[i].t - Log(s)[k].t >= Window(s.c)

\* C5: for every principal and category, when max+1 checks fall within one
\* window and the first of them found the window empty, the first max are
\* allowed and the (max+1)th is denied; and a check made once the clock is a
\* whole window past every earlier call is allowed.
C5_BurstThenRecover ==
    \A s \in Slots :
        /\ \A i \in DOMAIN Log(s) :
              LET j == i + MaxOf(s.c)
              IN  (/\ j \in DOMAIN Log(s)
                   /\ StartsEmpty(s, i)
                   /\ Log(s)[j].t - Log(s)[i].t < Window(s.c))
                  => /\ \A k \in i..(j - 1) : Log(s)[k].allowed
                     /\ ~Log(s)[j].allowed
        /\ \A m \in DOMAIN Log(s) :
              (\A k \in 1..(m - 1) : Log(s)[m].t - Log(s)[k].t >= Window(s.c))
              => Log(s)[m].allowed

\* the general-request slot saw 10 allowed checks, an 11th denied in the
\* same window and, a window later, a 12th allowed
C5_Witness ==
    \E s \in Slots :
        /\ s.c = "request"
        /\ Len(Log(s)) >= MaxOf(s.c) + 2
        /\ StartsEmpty(s, 1)
        /\ Log(s)[MaxOf(s.c) + 1].t - Log(s)[1].t < Window(s.c)
        /\ ~Log(s)[MaxOf(s.c) + 1].allowed
        /\ Log(s)[MaxOf(s.c) + 2].allowed
        /\ Log(s)[MaxOf(s.c) + 2].t - Log(s)[MaxOf(s.c) + 1].t >= Window(s.c)

\* allowed checks of the log with a timestamp in lo..hi
AllowedIn(s, lo, hi) ==
    {j \in DOMAIN Log(s) :
        Log(s)[j].allowed /\ lo <= Log(s)[j].t /\ Log(s)[j].t <= hi}

\* C6 as stated: every closed interval [t - window, t] holds at most max
\* allowed checks of a slot (no reset of the slot in between).
C6_ClosedIntervalBound ==
    \A s \in Slots : \A i \in DOMAIN Log(s) :
        Cardinality(AllowedIn(s, Log(s)[i].t - Window(s.c), Log(s)[i].t))
            <= MaxOf(s.c)

\* C6 amended: every half-open interval (t - window, t] holds at most max
\* allowed checks of a slot (no reset of the slot in between).
C6_SlidingWindowBound ==
    \A s \in Slots : \A i \in DOMAIN Log(s) :
        Cardinality(AllowedIn(s, Log(s)[i].t - Window(s.c) + 1, Log(s)[i].t))
            <= MaxOf(s.c)

\* a slot holds max allowed checks, all less than a window old, and a
\* further check was made and denied
C6_Witness ==
    \E s \in Slots : \E i \in DOMAIN Log(s) :
        /\ ~Log(s)[i].allowed
        /\ Cardinality(AllowedIn(s, Log(s)[i].t - Window(s.c) + 1, Log(s)[i].t))
               = MaxOf(s.c)
        /\ \E k \in 1..(i - 1) : Log(s)[k].t # Log(s)[1].t

\* the list of a slot
WindowOf(s) ==
    CASE s.c = "pin" -> pin_attempts[s.u]
      [] s.c = "twofa" -> twofa_attempts[s.u]
      [] s.c = "request" -> request_counts[s.u]

\* C29: right after a check of a category for a principal, allowed or
\* denied, every timestamp left in the list of that slot is less than one
\* window old.
C29_CheckPrunes ==
    [][\A u \in Principals :
          /\ CheckPin(u) =>
                 \A t \in Range(pin_attempts'[u]) :
                     now - t < Sec(pin_lockout_duration)
          /\ CheckTwofa(u) =>
                 \A t \in Range(twofa_attempts'[u]) :
                     now - t < Sec(twofa_lockout_duration)
          /\ CheckRequest(u) =>
                 \A t \in Range(request_counts'[u]) :
                     now - t < Sec(request_window)]_vars

\* the first check of a slot was allowed, the last one was made exactly one
\* window later and was allowed too: the list holds the last timestamp and
\* no longer the first
C29_Witness ==
    \E s \in Slots :
        /\ Len(Log(s)) >= 2
        /\ Log(s)[1].allowed
        /\ Log(s)[Len(Log(s))].allowed
        /\ Log(s)[Len(Log(s))].t = now
        /\ now - Log(s)[1].t = Window(s.c)
        /\ Log(s)[1].t \notin Range(WindowOf(s))
        /\ now \in Range(WindowOf(s))

\* C30: a denied check leaves in the list of its slot the timestamps less
\* than one window old and appends none; no list ever holds more than max
\* timestamps; the wait a denied check reports, in seconds, equals the
\* window less the age of the oldest timestamp left, and lies in (0, window].
C30_DeniedCheckRecordsNothing ==
    /\ [](\A s \in Slots : Len(WindowOf(s)) <= MaxOf(s.c))
    /\ [][LET Denied(before, after, c) ==
                 ~rl_result'.allowed =>
                     /\ after = SelectSeq(before,
                                          LAMBDA a : now - a < Window(c))
                     /\ Sec(rl_result'.remaining_time)
                            = Window(c) - (now - Min(after))
                     /\ 0 < rl_result'.remaining_time
                     /\ Sec(rl_result'.remaining_time) <= Window(c)
           IN  \A u \in Principals :
                   /\ CheckPin(u) =>
                          Denied(pin_attempts[u], pin_attempts'[u], "pin")
                   /\ CheckTwofa(u) =>
                          Denied(twofa_attempts[u], twofa_attempts'[u], "twofa")
                   /\ CheckRequest(u) =>
                          Denied(request_counts[u], request_counts'[u],
                                 "request")]_vars

(* ------------------------- Email2FA harness --------------------------- *)
\* fa_hist[u]: the code and expiry of the challenge last issued to u (None
\* when the last issue failed or none was made), the verify calls made for u
\* since then (right: with the issued code, wrong: with another code, ok:
\* answered with success), the last of these calls and, for the probed
\* principal, whether the delivery of the last issue failed
\* a run of the harness verifies codes for one principal, the probed one,
\* and issues and reissues challenges for all
InitFA ==
    /\ InitClock
    /\ InitRateLimiter
    /\ InitEmail2FA
    /\ InitCSRF
    /\ InitAuth
    /\ InitBot
    /\ probe \in [u : Principals, c : {"twofa"}]

FAState == [codes |-> codes_data, file |-> codes_file]

Issued(u, r, sent) ==
    IF r.ret = None
    THEN [fa_hist EXCEPT ![u] = [NoHist EXCEPT !.failed = probe.u = u /\ ~sent]]
    ELSE [fa_hist EXCEPT ![u] = [NoHist EXCEPT !.code = r.ret,
                                    !.expires_at = r.codes[u].expires_at,
                                    !.failed = probe.u = u /\ ~sent]]

Issue(u) ==
    \E code \in GeneratedCodes, sent \in BOOLEAN :
        LET r == send_verification_code(FAState, u, Username(u), now, code, sent)
        IN  /\ codes_data' = r.codes
            /\ codes_file' = r.file
            /\ fa_result' = r.ret
            /\ fa_hist' = Issued(u, r, sent)
            /\ UNCHANGED <<clockVars, rlVars, rlHarness, csrfVars, csrfHarness, pipeVars>>

Resend(u) ==
    \E code \in GeneratedCodes, sent \in BOOLEAN :
        LET r == resend_code(FAState, u, Username(u), now, code, sent)
        IN  /\ codes_data' = r.codes
            /\ codes_file' = r.file
            /\ fa_result' = r.ret
            /\ fa_hist' = Issued(u, r, sent)
            /\ UNCHANGED <<clockVars, rlVars, rlHarness, csrfVars, csrfHarness, pipeVars>>

Verify(u) ==
    /\ probe.u = u
    /\ fa_hist[u].right + fa_hist[u].wrong < MaxVerifies
    /\ \E input_code \in GeneratedCodes :
        LET r == verify_code(FAState, u, input_code, now)
            h == fa_hist[u]
            call == [input |-> input_code,
                     fresh |-> h.code # None /\ now <= h.expires_at,
                     rightBefore |-> h.right, wrongBefore |-> h.wrong,
                     okBefore |-> h.ok, ret |-> r.ret]
        IN  /\ codes_data' = r.codes
            /\ codes_file' = r.file
            /\ fa_result' = r.ret
            /\ fa_hist' = [fa_hist EXCEPT ![u] =
                  [h EXCEPT !.right = IF input_code = h.code THEN @ + 1 ELSE @,
                            !.wrong = IF h.code # None /\ input_code # h.code
                                      THEN @ + 1 ELSE @,
                            !.ok = IF r.ret.success THEN @ + 1 ELSE @,
                            !.last = <<call>>]]
            /\ UNCHANGED <<clockVars, rlVars, rlHarness, csrfVars, csrfHarness, pipeVars>>

\* the clock advances by one tick, or to one tick before / exactly the
\* lifetime of a challenge
Deltas2FA == {1, Sec(code_expiry_minutes * 60) - 1, Sec(code_expiry_minutes * 60)}

Tick2FA(d) ==
    /\ nticks < MaxTicks2FA
    /\ now' = now + d
    /\ nticks' = nticks + 1
    /\ UNCHANGED <<rlVars, rlHarness, faVars, faHarness, csrfVars, csrfHarness, pipeVars>>

Next2FA ==
    \/ \E u \in Principals : Issue(u)
    \/ \E u \in Principals : Resend(u)
    \/ \E u \in Principals : Verify(u)
    \/ \E d \in Deltas2FA : Tick2FA(d)

Spec2FA == InitFA /\ [][Next2FA]_vars

\* C7: after a successful issue for P, the first verify with the issued
\* code, made before expiry with fewer than max wrong attempts, succeeds and
\* removes the challenge; a later verify with the same code, with no new
\* issue in between, fails with can_retry false; a challenge yields success
\* at most once.
C7_SuccessExactlyOnce ==
    \A u \in Principals :
        LET h == fa_hist[u]
            l == h.last[1]
        IN  /\ h.ok <= 1
            /\ h.last # <<>> =>
                /\ (/\ l.input = h.code
                    /\ l.rightBefore = 0
                    /\ l.wrongBefore < max_attempts
                    /\ l.fresh)
                   => (l.ret.success /\ u \notin DOMAIN codes_data)
                /\ (l.input = h.code /\ l.okBefore >= 1)
                   => (~l.ret.success /\ ~l.ret.can_retry)

\* the issued code was verified with success and then submitted a second
\* time before its expiry
C7_Witness ==
    \E u \in Principals :
        LET h == fa_hist[u]
        IN  /\ h.last # <<>>
            /\ h.last[1].input = h.code
            /\ h.last[1].okBefore = 1
            /\ h.last[1].fresh
            /\ ~h.last[1].ret.success

\* C8: after max_attempts (3) wrong verify calls against one challenge of P
\* no challenge of P remains, in memory or in the file, and the next verify
\* for P, whatever the code, fails with can_retry false.
C8_ExhaustionDiscards ==
    \A u \in Principals :
        LET h == fa_hist[u]
            l == h.last[1]
        IN  /\ (h.code # None /\ h.wrong >= max_attempts)
               => (u \notin DOMAIN codes_data /\ u \notin DOMAIN codes_file)
            /\ (h.last # <<>> /\ h.code # None /\ l.wrongBefore >= max_attempts)
               => (~l.ret.success /\ ~l.ret.can_retry)

\* three wrong codes were submitted before the expiry and then the issued
\* code itself
C8_Witness ==
    \E u \in Principals :
        LET h == fa_hist[u]
        IN  /\ h.code # None
            /\ h.last # <<>>
            /\ h.last[1].wrongBefore = max_attempts
            /\ h.last[1].input = h.code
            /\ h.last[1].fresh
            /\ h.ok = 0

C13_OneChallengePerPrincipal ==
    \A u \in Principals :
        /\ Cardinality({k \in DOMAIN codes_data : k = u}) <= 1
        /\ Cardinality({k \in DOMAIN codes_file : k = u}) <= 1
        /\ u \in DOMAIN codes_data =>
               /\ codes_data[u].code = fa_hist[u].code
               /\ codes_data[u].expires_at = fa_hist[u].expires_at
               /\ codes_data[u].attempts = fa_hist[u].wrong
        /\ u \in DOMAIN codes_file => u \in DOMAIN codes_data
                                        /\ codes_file[u] = codes_data[u]

\* every principal has a challenge on file, issued at different times, and
\* a wrong code was verified against one of them
C13_Witness ==
    /\ DOMAIN codes_data = Principals
    /\ \E u, v \in Principals :
          /\ codes_data[u].expires_at < codes_data[v].expires_at
          /\ fa_hist[u].wrong = 1

(* ------------------------ CSRFManager harness ------------------------- *)
\* csrf_hist.issued[u]: the token last generated for u and its expiry;
\* csrf_hist.call: the extract call, if it was the last call made (who, the
\* action and the token part the data was made of, when, the token the
\* caller held, whether that token was unexpired, the tokens other principals
\* held); csrf_result is then its result
\* a run of the harness makes the calls of one principal, the probed one,
\* and generates tokens for all
InitCS ==
    /\ InitClock
    /\ InitRateLimiter
    /\ InitEmail2FA
    /\ InitCSRF
    /\ InitAuth
    /\ InitBot
    /\ probe \in [u : Principals, c : {"csrf"}]

CSState == [tokens |-> user_tokens, expiry |-> token_expiry]

\* bare actions handed to the binding, one of them with the separator inside
HarnessActions ==
    {<<>>, <<"cmd_", "menu">>, <<"approve_", "2">>, <<"a", Delim, "b">>}

\* token parts a caller may present: tokens, the empty string, a longer one
TokenParts == Tokens \cup {<<>>, <<"A", "B">>}

IssuedNow(u, r) ==
    [issued |-> [csrf_hist.issued EXCEPT ![u] = [token |-> r.tokens[u],
                                                 expires_at |-> r.expiry[u]]],
     call |-> <<>>]

GenerateToken(u) ==
    \E token \in Tokens :
        LET r == generate_token(CSState, u, now, token)
        IN  /\ user_tokens' = r.tokens
            /\ token_expiry' = r.expiry
            /\ csrf_result' = r.ret
            /\ csrf_hist' = IssuedNow(u, r)
            /\ UNCHANGED <<clockVars, rlVars, rlHarness, faVars, faHarness, pipeVars>>

GetUserToken(u) ==
    /\ probe.u = u
    /\ LET r == get_user_token(CSState, u, now)
       IN  /\ user_tokens' = r.tokens
           /\ token_expiry' = r.expiry
           /\ csrf_result' = r.ret
           /\ csrf_hist' = [csrf_hist EXCEPT !.call = <<>>]
    /\ UNCHANGED <<clockVars, rlVars, rlHarness, faVars, faHarness, pipeVars>>

Bind(u) ==
    /\ probe.u = u
    /\ \E a \in HarnessActions, token \in Tokens :
        LET r == add_csrf_to_callback_data(CSState, u, a, now, token)
        IN  /\ user_tokens' = r.tokens
            /\ token_expiry' = r.expiry
            /\ csrf_result' = r.ret
            /\ csrf_hist' = IssuedNow(u, r)
    /\ UNCHANGED <<clockVars, rlVars, rlHarness, faVars, faHarness, pipeVars>>

Unbind(u) ==
    /\ probe.u = u
    /\ \E a \in HarnessActions, tp \in TokenParts :
        LET r == extract_callback_data(CSState, u, a \o <<Delim>> \o tp, now)
        IN  /\ user_tokens' = r.tokens
            /\ token_expiry' = r.expiry
            /\ csrf_result' = r.ret
            /\ csrf_hist' = [csrf_hist EXCEPT !.call =
                  <<[u |-> u, a |-> a, tp |-> tp, t |-> now,
                     held |-> IF u \in DOMAIN user_tokens
                              THEN user_tokens[u] ELSE None,
                     live |-> u \in DOMAIN user_tokens /\ now <= token_expiry[u],
                     others |-> {user_tokens[q] : q \in DOMAIN user_tokens \ {u}}]>>]
    /\ UNCHANGED <<clockVars, rlVars, rlHarness, faVars, faHarness, pipeVars>>

\* the clock advances by one tick, or to one tick before / exactly the
\* lifetime of a token
DeltasCSRF == {1, Sec(token_lifetime) - 1, Sec(token_lifetime)}

TickCSRF(d) ==
    /\ nticks < MaxTicksCSRF
    /\ now' = now + d
    /\ nticks' = nticks + 1
    /\ UNCHANGED <<rlVars, rlHarness, faVars, faHarness, csrfVars, csrfHarness, pipeVars>>

NextCSRF ==
    \/ \E u \in Principals : GenerateToken(u)
    \/ \E u \in Principals : GetUserToken(u)
    \/ \E u \in Principals : Bind(u)
    \/ \E u \in Principals : Unbind(u)
    \/ \E d \in DeltasCSRF : TickCSRF(d)

SpecCSRF == InitCS /\ [][NextCSRF]_vars

\* C10: an extract call of P on a|csrf:X (X a string without the separator)
\* returns a when X is the unexpired token P holds; returns None when P
\* holds an unexpired token other than X; returns None when X is the token
\* of another principal and not the one of P; and returns None at any time
\* after the expiry of the token X generated for P.
C10_UnbindAcceptsOnlyOwnLiveToken ==
    csrf_hist.call # <<>> =>
        LET c == csrf_hist.call[1]
            g == csrf_hist.issued[c.u]
        IN  /\ (c.live /\ c.tp = c.held) => csrf_result = <<c.a>>
            /\ (c.live /\ c.tp # c.held) => csrf_result = None
            /\ (c.tp \in c.others /\ c.tp # c.held) => csrf_result = None
            /\ (g # None /\ c.tp = g.token /\ c.t > g.expires_at)
                  => csrf_result = None

\* the token P still holds was presented by P one tick after its expiry,
\* while another principal holds another token
C10_Witness ==
    /\ csrf_hist.call # <<>>
    /\ LET c == csrf_hist.call[1]
           g == csrf_hist.issued[c.u]
       IN  /\ c.tp = c.held
           /\ g # None
           /\ c.t = g.expires_at + 1
           /\ c.others # {}
           /\ c.tp \notin c.others

(* ------------------------------ the bot ------------------------------- *)
\* Updates are handled one at a time, each handler to its end.  Of what an
\* approved principal asks of the KeePass database, the entries are not
\* modelled: a listing is the kind "results" and is cached per principal,
\* an entry is the kind "entry", any other answer to a text is the kind
\* "served".  In a run one principal, the
\* probed one, is the applicant: it alone sends texts and /group; every
\* principal sends the other commands and callback queries.  The writes of
\* allowed_users.json go through.
harnessVars == <<rlHarness, faHarness, csrfHarness, authHarness, loopVars>>

AUState == [mem |-> allowed_users, file |-> users_file]

\* texts a principal sends: the gate secret, six-digit codes (wrong gate
\* secrets as well), and the resend word in two spellings
Texts == {ACCESS_PIN} \cup GeneratedCodes \cup {<<"resend">>, <<"RESEND">>}

\* bare actions of callback data
CallbackActions ==
    {<<"cmd_", c>> : c \in {"request_access", "group"}}
    \cup {<<k, str(x)>> : k \in {"approve_", "deny_", "rm_"}, x \in Principals}

\* callback data a principal sends: any action bound with a token some
\* principal holds, one bound with a string that is no token, and one
\* without a token
CallbackData ==
    {a \o <<Delim>> \o tp :
        a \in CallbackActions,
        tp \in {user_tokens[q] : q \in DOMAIN user_tokens}}
    \cup {<<"approve_", "2", Delim, "X">>, <<"cmd_", "menu">>}

\* the random token that is drawn if add_csrf_to_callback_data has to
\* generate one for u: a string no principal was given before
Drawn(u) == {<<"T", str(u), str(nticks)>>}

Answer(u, kind, message, n) ==
    reply' = [to |-> u, kind |-> kind, message |-> message, n |-> n]

Silent == notify' = NoReply

\* logger.log_csrf_attack(user_id, data), of which the event and the user
\* are kept, and a handler that logs no security event
log_csrf_attack(u, data) ==
    logged' = <<[event |-> "csrf_attack", user_id |-> u]>>

NoLog == logged' = None

\* an approve_ or deny_ action with a numeric target, and its target
IsDecision(action) ==
    /\ action # None
    /\ Len(action[1]) >= 2
    /\ action[1][1] \in {"approve_", "deny_"}
    /\ action[1][2] \in Digits

Target(action) == int(action[1][2])

\* history of the admission of p after an update of u: gate once p gave the
\* gate secret, verified once p then passed the second factor, granted once
\* an approve decision for p was then applied; resolved while the pending
\* request p last made has been decided
NextStage(p, u, kind, action) ==
    LET st == stage[p]
        before == Ids(allowed_users.pending_requests)
        after == Ids(allowed_users'.pending_requests)
    IN  [gate |-> st.gate \/ (/\ kind = "text" /\ p = u
                              /\ reply'.kind \in {"pin_ok", "send_failed"}),
         verified |-> st.verified \/ (/\ kind = "text" /\ p = u
                                      /\ reply'.kind = "code_ok" /\ st.gate),
         granted |-> st.granted \/ (/\ kind = "cb" /\ reply'.kind = "granted"
                                    /\ IsDecision(action) /\ Target(action) = p
                                    /\ st.verified),
         resolved |-> IF p \in after \ before
                      THEN FALSE
                      ELSE IF /\ kind = "cb" /\ IsDecision(action)
                              /\ Target(action) = p /\ p \in before
                      THEN TRUE
                      ELSE st.resolved]

\* history of the texts of u since it gave the gate secret on empty rate
\* windows; a command or a callback of u ends it; the admission harness
\* keeps none
NextFlow(u, kind, text) ==
    LET f == flow[u]
        event == [kind |-> reply'.kind, message |-> reply'.message,
                  wrong |-> FALSE, fresh |-> TRUE, expires_at |-> 0,
                  pin_window |-> pin_attempts'[u],
                  waiting_for_pin |-> user_data'[u].waiting_for_pin,
                  waiting_for_email_code |-> user_data'[u].waiting_for_email_code]
    IN  IF kind # "text" \/ probe.c = "admission"
        THEN <<>>
        ELSE IF /\ reply'.kind = "pin_ok"
                /\ request_counts[u] = <<>>
                /\ pin_attempts[u] = <<>>
                /\ twofa_attempts[u] = <<>>
        THEN <<[event EXCEPT !.message = codes_data'[u].code,
                             !.expires_at = codes_data'[u].expires_at]>>
        ELSE IF f = <<>> \/ Len(f) >= max_attempts + 1
        THEN <<>>
        ELSE Append(f, [event EXCEPT
                 !.wrong = validate_twofa_code(text) /\ text # f[1].message,
                 !.fresh = now <= f[1].expires_at])

\* the history after an update of u; action is what a callback query was
\* unbound to, text the text of a message
Recorded(u, kind, action, text) ==
    /\ nsteps < (IF probe.c = "admission" THEN MaxTexts ELSE MaxSteps)
    /\ nsteps' = nsteps + 1
    /\ last' = action
    /\ stage' = [p \in Principals |-> NextStage(p, u, kind, action)]
    /\ flow' = [flow EXCEPT ![u] = NextFlow(u, kind, text)]

(* commands *)
\* create_menu_keyboard(user_id): every button is bound with the token of
\* the user; the result is the data of the first button
create_menu_keyboard(cs, mem, u, t, token) ==
    add_csrf_to_callback_data(cs, u,
        IF is_user_allowed(mem, u)
        THEN <<"cmd_", "search">>
        ELSE <<"cmd_", "request_access">>, t, token)

ShowMenu(u) ==
    \E token \in Drawn(u) :
        LET k == create_menu_keyboard(CSState, allowed_users, u, now, token)
        IN  /\ user_tokens' = k.tokens
            /\ token_expiry' = k.expiry
            /\ Answer(u, "menu", k.ret, 0)
            /\ Silent

start(u) ==
    /\ ShowMenu(u)
    /\ UNCHANGED <<clockVars, rlVars, faVars, authVars, user_data, harnessVars,
                   search_results, current_page>>
    /\ NoLog
    /\ Recorded(u, "cmd", None, <<>>)

menu_command(u) ==
    /\ ShowMenu(u)
    /\ UNCHANGED <<clockVars, rlVars, faVars, authVars, user_data, harnessVars,
                   search_results, current_page>>
    /\ NoLog
    /\ Recorded(u, "cmd", None, <<>>)

\* mutant: a restart of the flow clears the second-factor list
group_command_cleared(u) ==
    /\ probe.u = u
    /\ IF ~is_user_allowed(allowed_users, u)
       THEN /\ Answer(u, "ask_pin", <<>>, 0)
            /\ user_data' = [user_data EXCEPT ![u].waiting_for_pin = TRUE]
       ELSE /\ Answer(u, "ask_group", <<>>, 0)
            /\ user_data' = [user_data EXCEPT ![u].waiting_for_pin = FALSE]
    /\ Silent
    /\ twofa_attempts' = reset_twofa_attempts(twofa_attempts, u)
    /\ UNCHANGED <<clockVars, pin_attempts, request_counts, faVars, csrfVars,
                   authVars, harnessVars, search_results, current_page>>
    /\ NoLog
    /\ Recorded(u, "cmd", None, <<>>)

group_command(u) ==
    /\ probe.u = u
    /\ IF ~is_user_allowed(allowed_users, u)
       THEN /\ Answer(u, "ask_pin", <<>>, 0)
            /\ user_data' = [user_data EXCEPT ![u].waiting_for_pin = TRUE]
       ELSE /\ Answer(u, "ask_group", <<>>, 0)
            /\ user_data' = [user_data EXCEPT ![u].waiting_for_pin = FALSE]
    /\ Silent
    /\ UNCHANGED <<clockVars, rlVars, faVars, csrfVars, authVars, harnessVars,
                   search_results, current_page>>
    /\ NoLog
    /\ Recorded(u, "cmd", None, <<>>)

\* create_users_management_keyboard binds every button with the token of
\* the admin
admin_command(u) ==
    /\ IF u # ADMIN_USER_ID
       THEN /\ Answer(u, "no_admin", <<>>, 0)
            /\ UNCHANGED csrfVars
       ELSE IF allowed_users.users = <<>>
       THEN /\ Answer(u, "no_users", <<>>, 0)
            /\ UNCHANGED csrfVars
       ELSE \E token \in Drawn(ADMIN_USER_ID) :
               LET k == add_csrf_to_callback_data(CSState, ADMIN_USER_ID,
                            <<"rm_", str(allowed_users.users[1].user_id)>>,
                            now, token)
               IN  /\ user_tokens' = k.tokens
                   /\ token_expiry' = k.expiry
                   /\ Answer(u, "admin_panel", k.ret, 0)
    /\ Silent
    /\ UNCHANGED <<clockVars, rlVars, faVars, authVars, user_data, harnessVars,
                   search_results, current_page>>
    /\ NoLog
    /\ Recorded(u, "cmd", None, <<>>)

\* PaginationManager(items_per_page = 10)
items_per_page == 10

\* pagination_manager.create_search_results_keyboard(results, page, user_id)
\* for results that are not empty, and the message it is sent with: the
\* buttons of the entries of the page, each bound with the token of the
\* user; the answer carries the entries and the number of the page
create_search_results_keyboard(cs, u, results, page) ==
    LET total_pages == (Len(results) - 1) \div items_per_page + 1
        shown == IF page < 0 THEN 0
                 ELSE IF page > total_pages - 1 THEN total_pages - 1 ELSE page
        start_idx == shown * items_per_page
        end_idx == IF start_idx + items_per_page < Len(results)
                   THEN start_idx + items_per_page ELSE Len(results)
        page_results == SubSeq(results, start_idx + 1, end_idx)
    IN  \E token \in Drawn(u) :
            LET k == add_csrf_to_callback_data(cs, u, <<"e_", page_results[1]>>,
                                               now, token)
            IN  /\ user_tokens' = k.tokens
                /\ token_expiry' = k.expiry
                /\ Answer(u, "results", page_results, shown)

\* list_command: /list; connected tells whether the KeePass database
\* answers, and the database holds one entry more than a page
list_command(u) ==
    /\ \E connected \in BOOLEAN :
          LET all_entries == [i \in 1..(items_per_page + 1) |-> "e"]
          IN  IF ~is_user_allowed(allowed_users, u)
              THEN /\ Answer(u, "no_access", <<>>, 0)
                   /\ UNCHANGED <<csrfVars, search_results, current_page>>
              ELSE IF ~connected
              THEN /\ Answer(u, "unavailable", <<>>, 0)
                   /\ UNCHANGED <<csrfVars, search_results, current_page>>
              ELSE /\ search_results' = DictSet(search_results, u, all_entries)
                   /\ current_page' = DictSet(current_page, u, 0)
                   /\ create_search_results_keyboard(CSState, u, all_entries, 0)
    /\ Silent
    /\ UNCHANGED <<clockVars, rlVars, faVars, authVars, user_data, harnessVars>>
    /\ NoLog
    /\ Recorded(u, "cmd", None, <<>>)

(* text messages *)
Flags(u, pin, email) ==
    user_data' = [user_data EXCEPT ![u] = [waiting_for_pin |-> pin,
                                           waiting_for_email_code |-> email]]

\* send_access_request_to_admin: the request is added and the two decision
\* buttons, bound with the token of the admin, are sent to the admin
send_access_request_to_admin(u) ==
    \E token \in Drawn(ADMIN_USER_ID) :
        LET au == add_user_request(AUState, u, Username(u), now, "ok")
            a == add_csrf_to_callback_data(CSState, ADMIN_USER_ID,
                     <<"approve_", str(u)>>, now, token)
            d == add_csrf_to_callback_data(
                     [tokens |-> a.tokens, expiry |-> a.expiry], ADMIN_USER_ID,
                     <<"deny_", str(u)>>, now, token)
        IN  /\ allowed_users' = au.mem
            /\ users_file' = au.file
            /\ user_tokens' = d.tokens
            /\ token_expiry' = d.expiry
            /\ notify' = [to |-> ADMIN_USER_ID, kind |-> "access_request",
                          message |-> a.ret, n |-> 0]

\* mutant: the text is compared with ACCESS_PIN before the gate check
GateStep_compared_first(u, text) ==
    IF ~validate_pin_code(text)
    THEN /\ Answer(u, "pin_format", <<>>, 0)
         /\ UNCHANGED <<pin_attempts, faVars, user_data>>
    ELSE
    LET pin_limit == check_pin_rate_limit(pin_attempts[u], now)
        counted == [pin_attempts EXCEPT ![u] = pin_limit.attempts]
    IN  IF text = ACCESS_PIN
        THEN \E code \in GeneratedCodes, sent \in BOOLEAN :
                LET r == send_verification_code(FAState, u, Username(u), now,
                                                code, sent)
                IN  /\ pin_attempts' = reset_pin_attempts(pin_attempts, u)
                    /\ codes_data' = r.codes
                    /\ codes_file' = r.file
                    /\ IF r.ret # None
                       THEN /\ Flags(u, FALSE, TRUE)
                            /\ Answer(u, "pin_ok", <<>>, 0)
                       ELSE /\ Flags(u, TRUE, FALSE)
                            /\ Answer(u, "send_failed", <<>>, 0)
        ELSE IF ~pin_limit.allowed
        THEN /\ pin_attempts' = counted
             /\ Answer(u, "pin_rate_limited", <<>>, pin_limit.remaining_time)
             /\ UNCHANGED <<faVars, user_data>>
        ELSE /\ pin_attempts' = counted
             /\ Answer(u, "pin_wrong", <<>>, 0)
             /\ UNCHANGED <<faVars, user_data>>

\* handle_text_message while waiting_for_pin (bot.py 203-253)
GateStep(u, text) ==
    IF ~validate_pin_code(text)
    THEN /\ Answer(u, "pin_format", <<>>, 0)
         /\ UNCHANGED <<pin_attempts, faVars, user_data>>
    ELSE
    LET pin_limit == check_pin_rate_limit(pin_attempts[u], now)
        counted == [pin_attempts EXCEPT ![u] = pin_limit.attempts]
    IN  IF ~pin_limit.allowed
        THEN /\ pin_attempts' = counted
             /\ Answer(u, "pin_rate_limited", <<>>, pin_limit.remaining_time)
             /\ UNCHANGED <<faVars, user_data>>
        ELSE IF text # ACCESS_PIN
        THEN /\ pin_attempts' = counted
             /\ Answer(u, "pin_wrong", <<>>, 0)
             /\ UNCHANGED <<faVars, user_data>>
        ELSE IF ~email_configured
        THEN /\ pin_attempts' = reset_pin_attempts(counted, u)
             /\ Flags(u, FALSE, TRUE)
             /\ Answer(u, "email_config", <<>>, 0)
             /\ UNCHANGED faVars
        ELSE \E code \in GeneratedCodes, sent \in BOOLEAN :
                LET r == send_verification_code(FAState, u, Username(u), now,
                                                code, sent)
                IN  /\ pin_attempts' = reset_pin_attempts(counted, u)
                    /\ codes_data' = r.codes
                    /\ codes_file' = r.file
                    /\ IF r.ret # None
                       THEN /\ Flags(u, FALSE, TRUE)
                            /\ Answer(u, "pin_ok", <<>>, 0)
                       ELSE /\ Flags(u, TRUE, FALSE)
                            /\ Answer(u, "send_failed", <<>>, 0)

\* mutant: the second-factor check comes before the format of the code
CodeStep_counted_first(u, text) ==
    IF lower(text) = <<"resend">>
    THEN \E code \in GeneratedCodes, sent \in BOOLEAN :
            LET r == resend_code(FAState, u, Username(u), now, code, sent)
            IN  /\ codes_data' = r.codes
                /\ codes_file' = r.file
                /\ Answer(u, IF r.ret # None THEN "resent" ELSE "resend_failed",
                          <<>>, 0)
                /\ Silent
                /\ UNCHANGED <<twofa_attempts, csrfVars, authVars, user_data>>
    ELSE
    LET twofa_limit == check_twofa_rate_limit(twofa_attempts[u], now)
        result == verify_code(FAState, u, text, now)
    IN  /\ twofa_attempts' = [twofa_attempts EXCEPT ![u] = twofa_limit.attempts]
        /\ IF ~twofa_limit.allowed
           THEN /\ Answer(u, "twofa_rate_limited", <<>>, twofa_limit.remaining_time)
                /\ Silent
                /\ UNCHANGED <<faVars, csrfVars, authVars, user_data>>
           ELSE IF ~validate_twofa_code(text)
           THEN /\ Answer(u, "code_format", <<>>, 0)
                /\ Silent
                /\ UNCHANGED <<faVars, csrfVars, authVars, user_data>>
           ELSE /\ codes_data' = result.codes
                /\ codes_file' = result.file
                /\ IF result.ret.success
                   THEN /\ Flags(u, user_data[u].waiting_for_pin, FALSE)
                        /\ Answer(u, "code_ok", result.ret.message, 0)
                        /\ send_access_request_to_admin(u)
                   ELSE IF result.ret.can_retry
                   THEN /\ Answer(u, "code_retry", result.ret.message, 0)
                        /\ Silent
                        /\ UNCHANGED <<csrfVars, authVars, user_data>>
                   ELSE /\ Flags(u, user_data[u].waiting_for_pin, FALSE)
                        /\ Answer(u, "code_final", result.ret.message, 0)
                        /\ Silent
                        /\ UNCHANGED <<csrfVars, authVars>>

\* mutant: a final failure of the code leaves waiting_for_email_code set
CodeStep_flag_kept(u, text) ==
    IF lower(text) = <<"resend">>
    THEN \E code \in GeneratedCodes, sent \in BOOLEAN :
            LET r == resend_code(FAState, u, Username(u), now, code, sent)
            IN  /\ codes_data' = r.codes
                /\ codes_file' = r.file
                /\ Answer(u, IF r.ret # None THEN "resent" ELSE "resend_failed",
                          <<>>, 0)
                /\ Silent
                /\ UNCHANGED <<twofa_attempts, csrfVars, authVars, user_data>>
    ELSE IF ~validate_twofa_code(text)
    THEN /\ Answer(u, "code_format", <<>>, 0)
         /\ Silent
         /\ UNCHANGED <<twofa_attempts, faVars, csrfVars, authVars, user_data>>
    ELSE
    LET twofa_limit == check_twofa_rate_limit(twofa_attempts[u], now)
        result == verify_code(FAState, u, text, now)
    IN  /\ twofa_attempts' = [twofa_attempts EXCEPT ![u] = twofa_limit.attempts]
        /\ IF ~twofa_limit.allowed
           THEN /\ Answer(u, "twofa_rate_limited", <<>>, twofa_limit.remaining_time)
                /\ Silent
                /\ UNCHANGED <<faVars, csrfVars, authVars, user_data>>
           ELSE /\ codes_data' = result.codes
                /\ codes_file' = result.file
                /\ IF result.ret.success
                   THEN /\ Flags(u, user_data[u].waiting_for_pin, FALSE)
                        /\ Answer(u, "code_ok", result.ret.message, 0)
                        /\ send_access_request_to_admin(u)
                   ELSE IF result.ret.can_retry
                   THEN /\ Answer(u, "code_retry", result.ret.message, 0)
                        /\ Silent
                        /\ UNCHANGED <<csrfVars, authVars, user_data>>
                   ELSE /\ Answer(u, "code_final", result.ret.message, 0)
                        /\ Silent
                        /\ UNCHANGED <<csrfVars, authVars, user_data>>

\* mutant: the resend command is counted in the second-factor list
CodeStep_resend_counted(u, text) ==
    IF lower(text) = <<"resend">>
    THEN \E code \in GeneratedCodes, sent \in BOOLEAN :
            LET r == resend_code(FAState, u, Username(u), now, code, sent)
            IN  /\ codes_data' = r.codes
                /\ codes_file' = r.file
                /\ Answer(u, IF r.ret # None THEN "resent" ELSE "resend_failed",
                          <<>>, 0)
                /\ Silent
                /\ twofa_attempts' =
                       [twofa_attempts EXCEPT
                           ![u] = check_twofa_rate_limit(@, now).attempts]
                /\ UNCHANGED <<csrfVars, authVars, user_data>>
    ELSE IF ~validate_twofa_code(text)
    THEN /\ Answer(u, "code_format", <<>>, 0)
         /\ Silent
         /\ UNCHANGED <<twofa_attempts, faVars, csrfVars, authVars, user_data>>
    ELSE
    LET twofa_limit == check_twofa_rate_limit(twofa_attempts[u], now)
        result == verify_code(FAState, u, text, now)
    IN  /\ twofa_attempts' = [twofa_attempts EXCEPT ![u] = twofa_limit.attempts]
        /\ IF ~twofa_limit.allowed
           THEN /\ Answer(u, "twofa_rate_limited", <<>>, twofa_limit.remaining_time)
                /\ Silent
                /\ UNCHANGED <<faVars, csrfVars, authVars, user_data>>
           ELSE /\ codes_data' = result.codes
                /\ codes_file' = result.file
                /\ IF result.ret.success
                   THEN /\ Flags(u, user_data[u].waiting_for_pin, FALSE)
                        /\ Answer(u, "code_ok", result.ret.message, 0)
                        /\ send_access_request_to_admin(u)
                   ELSE IF result.ret.can_retry
                   THEN /\ Answer(u, "code_retry", result.ret.message, 0)
                        /\ Silent
                        /\ UNCHANGED <<csrfVars, authVars, user_data>>
                   ELSE /\ Flags(u, user_data[u].waiting_for_pin, FALSE)
                        /\ Answer(u, "code_final", result.ret.message, 0)
                        /\ Silent
                        /\ UNCHANGED <<csrfVars, authVars>>

\* mutant: a wrong code with attempts left sends the request to the admin
CodeStep_request_on_retry(u, text) ==
    IF lower(text) = <<"resend">>
    THEN \E code \in GeneratedCodes, sent \in BOOLEAN :
            LET r == resend_code(FAState, u, Username(u), now, code, sent)
            IN  /\ codes_data' = r.codes
                /\ codes_file' = r.file
                /\ Answer(u, IF r.ret # None THEN "resent" ELSE "resend_failed",
                          <<>>, 0)
                /\ Silent
                /\ UNCHANGED <<twofa_attempts, csrfVars, authVars, user_data>>
    ELSE IF ~validate_twofa_code(text)
    THEN /\ Answer(u, "code_format", <<>>, 0)
         /\ Silent
         /\ UNCHANGED <<twofa_attempts, faVars, csrfVars, authVars, user_data>>
    ELSE
    LET twofa_limit == check_twofa_rate_limit(twofa_attempts[u], now)
        result == verify_code(FAState, u, text, now)
    IN  /\ twofa_attempts' = [twofa_attempts EXCEPT ![u] = twofa_limit.attempts]
        /\ IF ~twofa_limit.allowed
           THEN /\ Answer(u, "twofa_rate_limited", <<>>, twofa_limit.remaining_time)
                /\ Silent
                /\ UNCHANGED <<faVars, csrfVars, authVars, user_data>>
           ELSE /\ codes_data' = result.codes
                /\ codes_file' = result.file
                /\ IF result.ret.success
                   THEN /\ Flags(u, user_data[u].waiting_for_pin, FALSE)
                        /\ Answer(u, "code_ok", result.ret.message, 0)
                        /\ send_access_request_to_admin(u)
                   ELSE IF result.ret.can_retry
                   THEN /\ Answer(u, "code_retry", result.ret.message, 0)
                        /\ send_access_request_to_admin(u)
                        /\ UNCHANGED user_data
                   ELSE /\ Flags(u, user_data[u].waiting_for_pin, FALSE)
                        /\ Answer(u, "code_final", result.ret.message, 0)
                        /\ Silent
                        /\ UNCHANGED <<csrfVars, authVars>>

\* handle_text_message while waiting_for_email_code (bot.py 256-312)
CodeStep(u, text) ==
    IF lower(text) = <<"resend">>
    THEN \E code \in GeneratedCodes, sent \in BOOLEAN :
            LET r == resend_code(FAState, u, Username(u), now, code, sent)
            IN  /\ codes_data' = r.codes
                /\ codes_file' = r.file
                /\ Answer(u, IF r.ret # None THEN "resent" ELSE "resend_failed",
                          <<>>, 0)
                /\ Silent
                /\ UNCHANGED <<twofa_attempts, csrfVars, authVars, user_data>>
    ELSE IF ~validate_twofa_code(text)
    THEN /\ Answer(u, "code_format", <<>>, 0)
         /\ Silent
         /\ UNCHANGED <<twofa_attempts, faVars, csrfVars, authVars, user_data>>
    ELSE
    LET twofa_limit == check_twofa_rate_limit(twofa_attempts[u], now)
        result == verify_code(FAState, u, text, now)
    IN  /\ twofa_attempts' = [twofa_attempts EXCEPT ![u] = twofa_limit.attempts]
        /\ IF ~twofa_limit.allowed
           THEN /\ Answer(u, "twofa_rate_limited", <<>>, twofa_limit.remaining_time)
                /\ Silent
                /\ UNCHANGED <<faVars, csrfVars, authVars, user_data>>
           ELSE /\ codes_data' = result.codes
                /\ codes_file' = result.file
                /\ IF result.ret.success
                   THEN /\ Flags(u, user_data[u].waiting_for_pin, FALSE)
                        /\ Answer(u, "code_ok", result.ret.message, 0)
                        /\ send_access_request_to_admin(u)
                   ELSE IF result.ret.can_retry
                   THEN /\ Answer(u, "code_retry", result.ret.message, 0)
                        /\ Silent
                        /\ UNCHANGED <<csrfVars, authVars, user_data>>
                   ELSE /\ Flags(u, user_data[u].waiting_for_pin, FALSE)
                        /\ Answer(u, "code_final", result.ret.message, 0)
                        /\ Silent
                        /\ UNCHANGED <<csrfVars, authVars>>

handle_text_message(u, text) ==
    /\ probe.u = u
    /\ IF ~validate_message_length(text)
       THEN /\ Answer(u, "bad_length", <<>>, 0)
            /\ Silent
            /\ UNCHANGED <<rlVars, faVars, csrfVars, authVars, user_data,
                           search_results, current_page>>
       ELSE
       LET request_limit == check_request_rate_limit(request_counts[u], now)
       IN  /\ request_counts' =
                  [request_counts EXCEPT ![u] = request_limit.attempts]
           /\ IF ~request_limit.allowed
              THEN /\ Answer(u, "rate_limited", <<>>, request_limit.remaining_time)
                   /\ Silent
                   /\ UNCHANGED <<pin_attempts, twofa_attempts, faVars, csrfVars,
                                  authVars, user_data, search_results,
                                  current_page>>
              ELSE IF user_data[u].waiting_for_pin
              THEN /\ GateStep(u, text)
                   /\ Silent
                   /\ UNCHANGED <<twofa_attempts, csrfVars, authVars,
                                  search_results, current_page>>
              ELSE IF user_data[u].waiting_for_email_code
              THEN /\ CodeStep(u, text)
                   /\ UNCHANGED <<pin_attempts, search_results, current_page>>
              ELSE IF ~is_user_allowed(allowed_users, u)
              THEN /\ Answer(u, "no_access", <<>>, 0)
                   /\ Silent
                   /\ UNCHANGED <<pin_attempts, twofa_attempts, faVars, csrfVars,
                                  authVars, user_data, search_results,
                                  current_page>>
              ELSE \* process_search_query or process_group_query found
                   \* entries and cached them, or the text was answered
                   \* without a query or without a hit
                   /\ \E found \in BOOLEAN :
                         IF found
                         THEN /\ search_results' =
                                     DictSet(search_results, u, <<"e">>)
                              /\ current_page' = DictSet(current_page, u, 0)
                              /\ create_search_results_keyboard(CSState, u,
                                     <<"e">>, 0)
                         ELSE /\ Answer(u, "served", <<>>, 0)
                              /\ UNCHANGED <<csrfVars, search_results,
                                             current_page>>
                   /\ Silent
                   /\ UNCHANGED <<pin_attempts, twofa_attempts, faVars,
                                  authVars, user_data>>
    /\ UNCHANGED <<clockVars, harnessVars>>
    /\ NoLog
    /\ Recorded(u, "text", None, text)

(* callback queries *)
\* handle_menu_callback(update, context, data), data = "cmd_<command>"
handle_menu_callback(u, data) ==
    LET command == IF Len(data) >= 2 THEN data[2] ELSE ""
    IN  IF command = "request_access"
        THEN /\ Answer(u, "ask_pin", <<>>, 0)
             /\ Flags(u, TRUE, FALSE)
        ELSE IF command = "group"
        THEN IF ~is_user_allowed(allowed_users, u)
             THEN /\ Answer(u, "no_access", <<>>, 0)
                  /\ UNCHANGED user_data
             ELSE /\ Answer(u, "ask_group", <<>>, 0)
                  /\ user_data' = [user_data EXCEPT ![u].waiting_for_pin = FALSE]
        ELSE IF command = "menu"
        THEN /\ Answer(u, "menu", <<>>, 0)
             /\ UNCHANGED user_data
        ELSE /\ Answer(u, "unknown_command", <<>>, 0)
             /\ UNCHANGED user_data

\* handle_admin_callback(update, context): the data of the query is
\* unbound once more, then the decision is applied
handle_admin_callback(u, callback_data, cs) ==
    LET again == extract_callback_data(cs, u, callback_data, now)
        data == again.ret[1]
        numeric == Len(data) >= 2 /\ data[2] \in Digits
        target_user_id == int(data[2])
        username == UsernameIn(allowed_users.pending_requests, target_user_id)
        approved == approve_user(AUState, target_user_id, username, now, "ok")
        denied == deny_user(AUState, target_user_id, username, "ok")
    IN  /\ user_tokens' = again.tokens
        /\ token_expiry' = again.expiry
        /\ IF again.ret = None \/ again.ret[1] = <<>>
           THEN /\ Answer(u, "bad_token", <<>>, 0)
                /\ Silent
                /\ UNCHANGED authVars
           ELSE IF ~numeric
           THEN \* int() raises ValueError: the handler ends without an answer
                /\ reply' = NoReply
                /\ Silent
                /\ UNCHANGED authVars
           ELSE IF data[1] = "approve_"
           THEN /\ allowed_users' = approved.mem
                /\ users_file' = approved.file
                /\ IF approved.ret
                   THEN /\ Answer(u, "granted", username, 0)
                        /\ notify' = [to |-> target_user_id, kind |-> "approved",
                                      message |-> <<>>, n |-> 0]
                   ELSE /\ Answer(u, "grant_error", <<>>, 0)
                        /\ Silent
           ELSE /\ allowed_users' = denied.mem
                /\ users_file' = denied.file
                /\ IF denied.ret
                   THEN /\ Answer(u, "denied", username, 0)
                        /\ notify' = [to |-> target_user_id, kind |-> "denied",
                                      message |-> <<>>, n |-> 0]
                   ELSE /\ Answer(u, "deny_error", <<>>, 0)
                        /\ Silent

\* the rm_ branch of handle_callback_query (bot.py 1024-1058)
RemoveUser(u, data) ==
    LET numeric == Len(data) >= 2 /\ data[2] \in Digits
        target_user_id == int(data[2])
        username == UsernameIn(allowed_users.users, target_user_id)
        revoked == revoke_user_access(AUState, target_user_id, "ok")
    IN  IF u # ADMIN_USER_ID
        THEN /\ Answer(u, "no_admin", <<>>, 0)
             /\ Silent
             /\ UNCHANGED authVars
        ELSE IF ~numeric
        THEN /\ Answer(u, "bad_id", <<>>, 0)
             /\ Silent
             /\ UNCHANGED authVars
        ELSE /\ allowed_users' = revoked.mem
             /\ users_file' = revoked.file
             /\ IF revoked.ret
                THEN /\ Answer(u, "removed", username, 0)
                     /\ notify' = [to |-> target_user_id, kind |-> "revoked",
                                   message |-> <<>>, n |-> 0]
                ELSE /\ Answer(u, "remove_error", <<>>, 0)
                     /\ Silent

handle_callback_query(u, callback_data) ==
    /\ LET original == extract_callback_data(CSState, u, callback_data, now)
           cs == [tokens |-> original.tokens, expiry |-> original.expiry]
           data == original.ret[1]
       IN  IF ~HasDelim(callback_data)
           THEN /\ log_csrf_attack(u, callback_data)
                /\ Answer(u, "security_error", <<>>, 0)
                /\ Silent
                /\ UNCHANGED <<csrfVars, authVars, user_data>>
                /\ UNCHANGED <<search_results, current_page>>
                /\ UNCHANGED <<clockVars, rlVars, faVars, harnessVars>>
                /\ Recorded(u, "cb", None, <<>>)
           ELSE IF original.ret = None \/ original.ret[1] = <<>>
           THEN /\ user_tokens' = cs.tokens
                /\ token_expiry' = cs.expiry
                /\ log_csrf_attack(u, callback_data)
                /\ Answer(u, "bad_token", <<>>, 0)
                /\ Silent
                /\ UNCHANGED <<authVars, user_data>>
                /\ UNCHANGED <<search_results, current_page>>
                /\ UNCHANGED <<clockVars, rlVars, faVars, harnessVars>>
                /\ Recorded(u, "cb", None, <<>>)
           ELSE /\ IF data[1] = "cmd_"
                   THEN /\ handle_menu_callback(u, data)
                        /\ user_tokens' = cs.tokens
                        /\ token_expiry' = cs.expiry
                        /\ Silent
                        /\ UNCHANGED <<authVars, search_results, current_page>>
                   ELSE IF data[1] \in {"approve_", "deny_"}
                   THEN /\ handle_admin_callback(u, callback_data, cs)
                        /\ UNCHANGED <<user_data, search_results, current_page>>
                   ELSE IF data[1] = "e_"
                   THEN /\ Answer(u, IF is_user_allowed(allowed_users, u)
                                     THEN "entry" ELSE "no_access", <<>>, 0)
                        /\ Silent
                        /\ user_tokens' = cs.tokens
                        /\ token_expiry' = cs.expiry
                        /\ UNCHANGED <<authVars, user_data, search_results,
                                       current_page>>
                   ELSE IF data = <<"bs">>
                   THEN /\ IF u \notin DOMAIN search_results
                           THEN /\ Answer(u, "no_results", <<>>, 0)
                                /\ user_tokens' = cs.tokens
                                /\ token_expiry' = cs.expiry
                           ELSE create_search_results_keyboard(cs, u,
                                    search_results[u],
                                    IF u \in DOMAIN current_page
                                    THEN current_page[u] ELSE 0)
                        /\ Silent
                        /\ UNCHANGED <<authVars, user_data, search_results,
                                       current_page>>
                   ELSE IF data[1] = "p_"
                   THEN /\ IF u \notin DOMAIN search_results
                           THEN /\ Answer(u, "no_results", <<>>, 0)
                                /\ user_tokens' = cs.tokens
                                /\ token_expiry' = cs.expiry
                                /\ UNCHANGED current_page
                           ELSE IF ~(Len(data) = 2 /\ data[2] \in Digits)
                           THEN /\ Answer(u, "bad_page", <<>>, 0)
                                /\ user_tokens' = cs.tokens
                                /\ token_expiry' = cs.expiry
                                /\ UNCHANGED current_page
                           ELSE /\ create_search_results_keyboard(cs, u,
                                       search_results[u], int(data[2]))
                                /\ current_page' =
                                       DictSet(current_page, u, int(data[2]))
                        /\ Silent
                        /\ UNCHANGED <<authVars, user_data, search_results>>
                   ELSE IF data[1] = "rm_"
                   THEN /\ RemoveUser(u, data)
                        /\ user_tokens' = cs.tokens
                        /\ token_expiry' = cs.expiry
                        /\ UNCHANGED <<user_data, search_results, current_page>>
                   ELSE /\ reply' = NoReply
                        /\ Silent
                        /\ user_tokens' = cs.tokens
                        /\ token_expiry' = cs.expiry
                        /\ UNCHANGED <<authVars, user_data, search_results,
                                       current_page>>
                /\ UNCHANGED <<clockVars, rlVars, faVars, harnessVars>>
                /\ NoLog
                /\ Recorded(u, "cb", original.ret, <<>>)

\* the clock advances past the lifetime of a token and of a challenge
Deltas == {Sec(token_lifetime) + 1}

Tick(d) ==
    /\ nticks < MaxTicks
    /\ now' = now + d
    /\ nticks' = nticks + 1
    /\ UNCHANGED <<rlVars, faVars, csrfVars, authVars, botVars, histVars,
                   harnessVars>>

Next ==
    \/ \E u \in Principals : start(u)
    \/ \E u \in Principals : menu_command(u)
    \/ \E u \in Principals : group_command(u)
    \/ \E u \in Principals : admin_command(u)
    \/ \E u \in Principals, text \in Texts : handle_text_message(u, text)
    \/ \E u \in Principals, data \in CallbackData : handle_callback_query(u, data)
    \/ \E d \in Deltas : Tick(d)

Spec == Init /\ [][Next]_vars

\* an update was handled in this step, and the callback query in it was
\* unbound to an approve_ or deny_ action with a numeric target
DecisionStep == nsteps' # nsteps /\ IsDecision(last')

RegistryIdsUnchanged ==
    /\ Ids(allowed_users'.users) = Ids(allowed_users.users)
    /\ Ids(allowed_users'.pending_requests) = Ids(allowed_users.pending_requests)

\* C1: in every reachable state a principal is in the approved list only if
\* it gave the gate secret, then passed the second factor, and after that an
\* approve decision for it was applied.
C1_ApprovedOnlyThroughAdmission ==
    \A p \in Ids(allowed_users.users) : stage[p].granted

\* C2: an approve_ or deny_ action bound with the valid token of a principal
\* other than the admin, sent by that principal, leaves the ids of the
\* approved list and of the pending list unchanged.
C2_DecisionsOnlyByAdmin ==
    [][(DecisionStep /\ reply'.to # ADMIN_USER_ID) => RegistryIdsUnchanged]_vars

\* C3: in every reachable state no principal is in the pending list and in
\* the approved list at the same time.
C3_PendingApprovedDisjoint ==
    Ids(allowed_users.users) \cap Ids(allowed_users.pending_requests) = {}

\* C4: once the pending request of a principal was resolved by a decision, a
\* further approve_ or deny_ action for it leaves the ids of the approved
\* list and of the pending list unchanged and is answered as "no effect".
C4_ResolvedDecisionIsNoOp ==
    [][(DecisionStep /\ stage[Target(last')].resolved)
          => (RegistryIdsUnchanged /\ reply'.kind = "no_effect")]_vars

\* C9: after u gave the gate secret on empty rate windows, its gate window
\* is empty, a challenge of code_length digits is issued and u waits for the
\* code; while every later text of u is a wrong code of six digits given
\* before the challenge expires, the first and the second are answered as
\* retryable with 2 and 1 attempts left and u keeps waiting for the code, and
\* the third is answered as final and u waits for nothing.
C9_WrongCodeLadder ==
    \A u \in Principals :
        LET f == flow[u]
        IN  f # <<>> =>
            /\ f[1].pin_window = <<>>
            /\ Len(f[1].message) = code_length
            /\ IsDigits(f[1].message)
            /\ f[1].waiting_for_email_code
            /\ ~f[1].waiting_for_pin
            /\ \A k \in 2..Len(f) :
                  (\A j \in 2..k : f[j].wrong /\ f[j].fresh) =>
                      IF k <= max_attempts
                      THEN /\ f[k].kind = "code_retry"
                           /\ f[k].message = <<"wrong", str(max_attempts + 1 - k)>>
                           /\ f[k].waiting_for_email_code
                           /\ ~f[k].waiting_for_pin
                      ELSE /\ f[k].kind = "code_final"
                           /\ ~f[k].waiting_for_email_code
                           /\ ~f[k].waiting_for_pin

\* the gate secret and then three wrong codes were given by one principal
C9_Witness ==
    \E u \in Principals :
        /\ Len(flow[u]) = max_attempts + 1
        /\ \A j \in 2..Len(flow[u]) : flow[u][j].wrong /\ flow[u][j].fresh
        /\ reply.kind = "code_final"
        /\ reply.to = u

\* an update of u with the callback data d that handle_callback_query
\* rejects: d has no separator, or its token part is not the unexpired token
\* of u
Rejected(u, d) ==
    \/ ~HasDelim(d)
    \/ ~validate_token(CSState, u, rsplit(d).token_part, now).ret

\* C11: a callback query whose data lacks the separator or whose token
\* fails validation leaves the registry and its file, the waiting flags of
\* every principal, every challenge and every rate window unchanged, is
\* answered with a rejection and is logged as a CSRF attack of its sender.
C11_RejectedCallbackChangesNothing ==
    [][\A u \in Principals, d \in CallbackData :
          (Rejected(u, d) /\ handle_callback_query(u, d)) =>
              /\ UNCHANGED <<authVars, user_data, faVars, rlVars>>
              /\ reply'.kind \in {"security_error", "bad_token"}
              /\ notify' = NoReply
              /\ logged' = <<[event |-> "csrf_attack", user_id |-> u]>>]_vars

\* a principal that waits for its code, with a challenge on file, a request
\* of another principal pending and a token of its own, had a callback
\* query rejected
C11_Witness ==
    /\ logged # None
    /\ reply.kind = "bad_token"
    /\ user_data[reply.to].waiting_for_email_code
    /\ reply.to \in DOMAIN codes_data
    /\ reply.to \in DOMAIN user_tokens
    /\ request_counts[reply.to] # <<>>

(* ------------------------ AuthManager harness ------------------------- *)
\* The methods of AuthManager are called in any order, for every principal
\* and with every outcome of the write of allowed_users.json:
\* add_user_request as send_access_request_to_admin calls it, approve_user,
\* deny_user and revoke_user_access, and handle_admin_callback on the data of
\* a decision button bound with the token of its sender.  A call of a method
\* other than handle_admin_callback sends no message.  A run either calls
\* the four registry methods, under two display names of the probed
\* principal and with failing writes in the calls about it, or it calls them under one name with
\* writes that go through, and handle_admin_callback as well.
InitAU ==
    /\ InitClock
    /\ InitRateLimiter
    /\ InitEmail2FA
    /\ InitCSRF
    /\ InitAuth
    /\ InitBot
    /\ probe \in [u : Principals, c : {"methods"}]
                 \cup {[u |-> ADMIN_USER_ID, c |-> "callback"]}

\* display names a principal is known under
Names(u) ==
    IF probe.c = "methods" /\ probe.u = u
    THEN {Username(u), <<"renamed", str(u)>>}
    ELSE {Username(u)}

\* outcomes of a write of allowed_users.json by a call about u
Writes(u) ==
    IF probe.c = "methods" /\ probe.u = u THEN WriteOutcomes ELSE {"ok"}

\* what a call of a registry method leaves alone
AuthFrame ==
    /\ reply' = NoReply
    /\ notify' = NoReply
    /\ UNCHANGED <<clockVars, rlVars, rlHarness, faVars, faHarness, csrfVars,
                   csrfHarness, user_data, logged, histVars, loopVars,
                   search_results, current_page>>

\* self.add_user_request(user_id, username) with the write outcome w
AddUserRequest(u, username, w) ==
    LET r == add_user_request(AUState, u, username, now, w)
    IN  /\ allowed_users' = r.mem
        /\ users_file' = r.file
        /\ auth_result' = None
        /\ AuthFrame

ApproveUser(u, username, w) ==
    LET r == approve_user(AUState, u, username, now, w)
    IN  /\ allowed_users' = r.mem
        /\ users_file' = r.file
        /\ auth_result' = <<r.ret>>
        /\ AuthFrame

DenyUser(u, username, w) ==
    LET r == deny_user(AUState, u, username, w)
    IN  /\ allowed_users' = r.mem
        /\ users_file' = r.file
        /\ auth_result' = <<r.ret>>
        /\ AuthFrame

RevokeUserAccess(u, w) ==
    LET r == revoke_user_access(AUState, u, w)
    IN  /\ allowed_users' = r.mem
        /\ users_file' = r.file
        /\ auth_result' = <<r.ret>>
        /\ AuthFrame

RequestAccess(u) ==
    \E username \in Names(u), w \in Writes(u) : AddUserRequest(u, username, w)

Approve(u) ==
    \E username \in Names(u), w \in Writes(u) : ApproveUser(u, username, w)

Deny(u) ==
    \E username \in Names(u), w \in Writes(u) : DenyUser(u, username, w)

Revoke(u) == \E w \in Writes(u) : RevokeUserAccess(u, w)

\* the buttons of an access request reach their sender bound with its token
BindDecisions(u) ==
    /\ probe.c = "callback"
    /\ u \notin DOMAIN user_tokens
    /\ LET g == generate_token(CSState, u, now, <<"T", str(u)>>)
       IN  /\ user_tokens' = g.tokens
           /\ token_expiry' = g.expiry
    /\ UNCHANGED <<clockVars, rlVars, rlHarness, faVars, faHarness,
                   csrfHarness, authVars, authHarness, botVars, histVars,
                   loopVars>>

\* callback data of a decision button bound with the token u holds
Decision(u, k, x) == <<k, str(x), Delim>> \o user_tokens[u]

\* handle_admin_callback on "approve_<x>" or "deny_<x>" sent by u
AdminCallback(u, k, x) ==
    /\ u \in DOMAIN user_tokens
    /\ handle_admin_callback(u, Decision(u, k, x), CSState)
    /\ auth_result' = None
    /\ UNCHANGED <<clockVars, rlVars, rlHarness, faVars, faHarness,
                   csrfHarness, user_data, logged, histVars, loopVars,
                   search_results, current_page>>

DecisionCallback(u) ==
    \E k \in {"approve_", "deny_"}, x \in Principals : AdminCallback(u, k, x)

TickAuth ==
    /\ nticks < MaxTicksAuth
    /\ now' = now + 1
    /\ nticks' = nticks + 1
    /\ UNCHANGED <<rlVars, rlHarness, faVars, faHarness, csrfVars,
                   csrfHarness, pipeVars>>

NextAU ==
    \/ \E u \in Principals : RequestAccess(u)
    \/ \E u \in Principals : Approve(u)
    \/ \E u \in Principals : Deny(u)
    \/ \E u \in Principals : Revoke(u)
    \/ \E u \in Principals : BindDecisions(u)
    \/ \E u \in Principals : DecisionCallback(u)
    \/ TickAuth

SpecAU == InitAU /\ [][NextAU]_vars

\* number of entries of u in a list
CountOf(list, u) == Cardinality({i \in DOMAIN list : list[i].user_id = u})

\* C14: add_user_request for a principal that has a pending request changes
\* nothing; for one that has none it appends one request with the name and
\* the time of that call; a request stays as it is for as long as it is
\* pending; pending_requests never holds two requests of one principal.
C14_RequestAccessIdempotent ==
    /\ [](\A u \in Principals :
             CountOf(allowed_users.pending_requests, u) <= 1)
    /\ [][LET EntryOf(list, v) ==
                   list[CHOOSE i \in DOMAIN list : list[i].user_id = v]
           IN
           \A u \in Principals :
             /\ \A username \in Names(u), w \in Writes(u) :
                    AddUserRequest(u, username, w) =>
                        IF u \in Ids(allowed_users.pending_requests)
                        THEN allowed_users' = allowed_users
                        ELSE allowed_users' =
                                 [allowed_users EXCEPT !.pending_requests =
                                     Append(@, [user_id |-> u,
                                                username |-> username,
                                                timestamp |-> now])]
             /\ (/\ u \in Ids(allowed_users.pending_requests)
                 /\ u \in Ids(allowed_users'.pending_requests)) =>
                    EntryOf(allowed_users'.pending_requests, u)
                        = EntryOf(allowed_users.pending_requests, u)]_vars

\* the probed principal asked at time 0 and again, under any name, after the
\* other principal was approved at time 1 (add_user_request is the last
\* call, it returns None): its request is the first one
C14_Witness ==
    /\ probe.c = "methods"
    /\ auth_result = None
    /\ allowed_users.pending_requests =
           <<[user_id |-> probe.u, username |-> Username(probe.u),
              timestamp |-> 0]>>
    /\ \E i \in DOMAIN allowed_users.users :
           /\ allowed_users.users[i].user_id # probe.u
           /\ allowed_users.users[i].approved_at = 1

\* C15: approve_user for a principal that is in users returns False and
\* leaves users as it was; users never holds two entries of one principal.
C15_ApproveOfApproved ==
    /\ [](\A u \in Principals : CountOf(allowed_users.users, u) <= 1)
    /\ [][\A u \in Principals : \A username \in Names(u), w \in Writes(u) :
             (is_user_allowed(allowed_users, u)
              /\ ApproveUser(u, username, w)) =>
                 /\ auth_result' = <<FALSE>>
                 /\ allowed_users'.users = allowed_users.users]_vars

\* every write went through, a call returned False, and an allowed
\* principal has lost in memory the request it has on file: approve_user was
\* called for it while it was allowed
C15_Witness ==
    /\ probe.c = "callback"
    /\ auth_result = <<FALSE>>
    /\ users_file.users = allowed_users.users
    /\ \E u \in Principals :
           /\ is_user_allowed(allowed_users, u)
           /\ u \in Ids(users_file.pending_requests)
           /\ u \notin Ids(allowed_users.pending_requests)

\* C16: when the admin sends a decision button with its valid token for a
\* principal that has a pending request, then after "approve_" the principal
\* is allowed, has no pending request and was sent the approval; after
\* "deny_" it is not allowed, has no pending request and was sent the denial.
C16_AdminDecisionTakesEffect ==
    [][\A k \in {"approve_", "deny_"}, x \in Principals :
          (/\ ADMIN_USER_ID \in DOMAIN user_tokens
           /\ validate_token(CSState, ADMIN_USER_ID,
                             user_tokens[ADMIN_USER_ID], now).ret
           /\ x \in Ids(allowed_users.pending_requests)
           /\ AdminCallback(ADMIN_USER_ID, k, x)) =>
              /\ x \notin Ids(allowed_users'.pending_requests)
              /\ notify'.to = x
              /\ IF k = "approve_"
                 THEN /\ is_user_allowed(allowed_users', x)
                      /\ notify'.kind = "approved"
                 ELSE /\ ~is_user_allowed(allowed_users', x)
                      /\ notify'.kind = "denied"]_vars

\* C17: deny_user for a principal that has a pending request returns True
\* and leaves the other requests, in their order; for one that has none it
\* returns False and leaves allowed_users and its file as they were; it
\* never changes users.
C17_Deny ==
    [][\A u \in Principals : \A username \in Names(u), w \in Writes(u) :
          DenyUser(u, username, w) =>
              /\ allowed_users'.users = allowed_users.users
              /\ IF u \in Ids(allowed_users.pending_requests)
                 THEN /\ auth_result' = <<TRUE>>
                      /\ u \notin Ids(allowed_users'.pending_requests)
                      /\ allowed_users'.pending_requests =
                             SelectSeq(allowed_users.pending_requests,
                                       LAMBDA req : req.user_id # u)
                 ELSE /\ auth_result' = <<FALSE>>
                      /\ UNCHANGED authVars]_vars

\* handle_admin_callback has just denied the request of an allowed
\* principal: deny_user returned True, the principal is still in users and
\* has no request
C17_Witness ==
    /\ reply.kind = "denied"
    /\ notify.kind = "denied"
    /\ notify.to \in Ids(allowed_users.users)
    /\ notify.to \notin Ids(allowed_users.pending_requests)
    /\ users_file = allowed_users

\* C18: revoke_user_access for an allowed principal returns True and the
\* principal is no longer allowed; for another it returns False and leaves
\* allowed_users and its file as they were; it never changes
\* pending_requests; a principal that is not allowed becomes allowed only in
\* a step of approve_user for it.
C18_Revoke ==
    [][/\ \A u \in Principals : \A w \in Writes(u) :
              RevokeUserAccess(u, w) =>
                  /\ allowed_users'.pending_requests
                         = allowed_users.pending_requests
                  /\ IF is_user_allowed(allowed_users, u)
                     THEN /\ auth_result' = <<TRUE>>
                          /\ ~is_user_allowed(allowed_users', u)
                     ELSE /\ auth_result' = <<FALSE>>
                          /\ UNCHANGED authVars
       /\ \A u \in Principals :
              (~is_user_allowed(allowed_users, u)
               /\ is_user_allowed(allowed_users', u)) =>
                  \/ \E username \in Names(u), w \in Writes(u) :
                         ApproveUser(u, username, w)
                  \/ \E v \in DOMAIN user_tokens :
                         AdminCallback(v, "approve_", u)]_vars

\* the probed principal was approved at time 0, revoked by a call whose
\* write failed, and approved anew at time 1 by a call whose write failed
C18_Witness ==
    /\ auth_result = <<TRUE>>
    /\ "partial" \notin DOMAIN users_file
    /\ allowed_users.users =
           <<[user_id |-> probe.u, username |-> Username(probe.u),
              approved_at |-> 1]>>
    /\ users_file.users =
           <<[user_id |-> probe.u, username |-> Username(probe.u),
              approved_at |-> 0]>>

\* C19: when the write goes through, after every call of add_user_request,
\* approve_user, deny_user or revoke_user_access that changed allowed_users
\* the file holds allowed_users as it is when the call returns.
C19_FileFollowsMemory ==
    [][\A u \in Principals : \A username \in Names(u) :
          (/\ \/ AddUserRequest(u, username, "ok")
              \/ ApproveUser(u, username, "ok")
              \/ DenyUser(u, username, "ok")
              \/ RevokeUserAccess(u, "ok")
           /\ allowed_users' # allowed_users) =>
              users_file' = allowed_users']_vars

\* C20: a call of add_user_request, approve_user, deny_user or
\* revoke_user_access whose write fails returns what it returns when the
\* write goes through and leaves allowed_users as that call leaves it, and
\* the file keeps the content it had before the call.
C20_FailedWriteKeepsFile ==
    [][\A u \in Principals :
          \A username \in Names(u), w \in Writes(u) \ {"ok"} :
             /\ AddUserRequest(u, username, w) =>
                    /\ allowed_users' =
                           add_user_request(AUState, u, username, now, "ok").mem
                    /\ users_file' = users_file
             /\ ApproveUser(u, username, w) =>
                    LET r == approve_user(AUState, u, username, now, "ok")
                    IN  /\ allowed_users' = r.mem
                        /\ auth_result' = <<r.ret>>
                        /\ users_file' = users_file
             /\ DenyUser(u, username, w) =>
                    LET r == deny_user(AUState, u, username, "ok")
                    IN  /\ allowed_users' = r.mem
                        /\ auth_result' = <<r.ret>>
                        /\ users_file' = users_file
             /\ RevokeUserAccess(u, w) =>
                    LET r == revoke_user_access(AUState, u, "ok")
                    IN  /\ allowed_users' = r.mem
                        /\ auth_result' = <<r.ret>>
                        /\ users_file' = users_file]_vars

(* ------------------------- admission harness -------------------------- *)
\* /group and the text messages of one principal, the probed one, up to
\* MaxTexts updates: enough for the ten texts of a general-request window,
\* the five of a gate window and the three of a second-factor window.
InitTM ==
    /\ InitClock
    /\ InitRateLimiter
    /\ InitEmail2FA
    /\ InitCSRF
    /\ InitAuth
    /\ InitBot
    /\ probe \in [u : Principals, c : {"admission"}]

\* texts of the harness: those of the bot, one that is neither a gate
\* secret nor a code by its format, and one longer than max_message_length
TextsTM ==
    Texts \cup {<<"1", "x">>, [i \in 1..(max_message_length + 1) |-> "a"]}

\* the clock advances past the lifetime of a challenge, to a time that is
\* not a whole second
DeltasTM == {Sec(code_expiry_minutes * 60) + 1}

TickTM(d) ==
    /\ nticks < MaxTicksTM
    /\ now' = now + d
    /\ nticks' = nticks + 1
    /\ UNCHANGED <<rlVars, faVars, csrfVars, authVars, botVars, histVars,
                   harnessVars>>

NextTM ==
    \/ \E u \in Principals : group_command(u)
    \/ \E u \in Principals, text \in TextsTM : handle_text_message(u, text)
    \/ \E d \in DeltasTM : TickTM(d)

SpecTM == InitTM /\ [][NextTM]_vars

\* C21: when a principal that waits for the gate secret sends it while the
\* general-request check and the gate check allow it and the code is
\* delivered, then its gate list is empty, it waits for the code and no
\* longer for the gate secret, and it has a challenge with attempts 0 that
\* expires 60 minutes after now.
C21_GateSecretAccepted ==
    [][\A u \in Principals :
          (/\ user_data[u].waiting_for_pin
           /\ check_request_rate_limit(request_counts[u], now).allowed
           /\ check_pin_rate_limit(pin_attempts[u], now).allowed
           /\ handle_text_message(u, ACCESS_PIN)
           /\ reply'.kind # "send_failed") =>
              /\ pin_attempts'[u] = <<>>
              /\ ~user_data'[u].waiting_for_pin
              /\ user_data'[u].waiting_for_email_code
              /\ u \in DOMAIN codes_data'
              /\ codes_data'[u].attempts = 0
              /\ codes_data'[u].expires_at
                     = now + Sec(code_expiry_minutes * 60)]_vars

\* C22: while a principal waits for the gate secret and the general-request
\* check allows its text, a text in the format of a gate secret goes through
\* the gate check before it is compared: once the gate list holds
\* max_pin_attempts timestamps less than a window old the text, the gate
\* secret included, is answered with a wait and changes neither the flags
\* nor the challenges nor the gate list; below that a wrong secret adds one
\* timestamp to the gate list and leaves the flags and the challenges.
C22_GateCheckBeforeComparison ==
    [][\A u \in Principals, text \in TextsTM :
          (/\ user_data[u].waiting_for_pin
           /\ validate_pin_code(text)
           /\ check_request_rate_limit(request_counts[u], now).allowed
           /\ handle_text_message(u, text)) =>
              LET kept == SelectSeq(pin_attempts[u],
                              LAMBDA a : now - a < Sec(pin_lockout_duration))
              IN  IF Len(kept) >= max_pin_attempts
                  THEN /\ reply'.kind = "pin_rate_limited"
                       /\ pin_attempts'[u] = kept
                       /\ UNCHANGED <<user_data, faVars>>
                  ELSE text # ACCESS_PIN =>
                       /\ reply'.kind = "pin_wrong"
                       /\ pin_attempts'[u] = Append(kept, now)
                       /\ UNCHANGED <<user_data, faVars>>]_vars

\* a principal that waits for the gate secret holds a full gate list and
\* was answered with a wait of a whole window
C22_Witness ==
    \E u \in Principals :
        /\ user_data[u].waiting_for_pin
        /\ Len(pin_attempts[u]) = max_pin_attempts
        /\ reply = [to |-> u, kind |-> "pin_rate_limited", message |-> <<>>,
                    n |-> pin_lockout_duration]

\* C23: every text goes through the general-request check before anything
\* else is looked at; when the check denies, the text is answered with the
\* wait and the flags, the challenges, the registry, the gate list and the
\* second-factor list are unchanged.
C23_GeneralCheckFirst ==
    [][\A u \in Principals, text \in TextsTM :
          handle_text_message(u, text) =>
              LET request_limit ==
                      check_request_rate_limit(request_counts[u], now)
              IN  /\ request_counts'[u] = request_limit.attempts
                  /\ ~request_limit.allowed =>
                         /\ reply'.kind = "rate_limited"
                         /\ UNCHANGED <<user_data, faVars, authVars,
                                        pin_attempts, twofa_attempts>>]_vars

\* C24: a text that is not in the format its step asks for (not a gate
\* secret while waiting_for_pin; neither the resend command nor a code while
\* waiting_for_email_code) is answered with the format message and changes
\* neither the flags, nor the challenges and their attempts, nor the
\* registry, nor the gate list, nor the second-factor list.
C24_MalformedChangesNothing ==
    [][\A u \in Principals, text \in TextsTM :
          (/\ validate_message_length(text)
           /\ \/ /\ user_data[u].waiting_for_pin
                 /\ ~validate_pin_code(text)
              \/ /\ ~user_data[u].waiting_for_pin
                 /\ user_data[u].waiting_for_email_code
                 /\ lower(text) # <<"resend">>
                 /\ ~validate_twofa_code(text)
           /\ check_request_rate_limit(request_counts[u], now).allowed
           /\ handle_text_message(u, text)) =>
              /\ reply'.to = u
              /\ reply'.kind = IF user_data[u].waiting_for_pin
                               THEN "pin_format" ELSE "code_format"
              /\ UNCHANGED <<user_data, faVars, authVars,
                             pin_attempts, twofa_attempts>>]_vars

\* C24 witness: a malformed code was answered while a challenge with a used
\* attempt and a second-factor list with an entry were on file
C24_Witness ==
    \E u \in Principals :
        /\ reply.to = u
        /\ reply.kind = "code_format"
        /\ user_data[u].waiting_for_email_code
        /\ u \in DOMAIN codes_data
        /\ codes_data[u].attempts >= 1
        /\ Len(twofa_attempts[u]) >= 1

\* C25: when a code sent while waiting_for_email_code reaches verify_code
\* and fails, then with can_retry False (no challenge, expired, attempts
\* used up) the principal waits for nothing any more and has no challenge,
\* and with can_retry True the flags stay and the challenge stays with one
\* attempt more.
C25_VerifyFailure ==
    [][\A u \in Principals, text \in TextsTM :
          (/\ validate_message_length(text)
           /\ ~user_data[u].waiting_for_pin
           /\ user_data[u].waiting_for_email_code
           /\ lower(text) # <<"resend">>
           /\ validate_twofa_code(text)
           /\ check_request_rate_limit(request_counts[u], now).allowed
           /\ check_twofa_rate_limit(twofa_attempts[u], now).allowed
           /\ ~verify_code(FAState, u, text, now).ret.success
           /\ handle_text_message(u, text)) =>
              IF verify_code(FAState, u, text, now).ret.can_retry
              THEN /\ user_data'[u] = user_data[u]
                   /\ u \in DOMAIN codes_data
                   /\ codes_data' = [codes_data EXCEPT ![u].attempts = @ + 1]
              ELSE /\ ~user_data'[u].waiting_for_pin
                   /\ ~user_data'[u].waiting_for_email_code
                   /\ u \notin DOMAIN codes_data']_vars

\* C25 witness: a code was refused for good because its challenge had
\* expired, and the principal waits for nothing
C25_Witness ==
    \E u \in Principals :
        /\ reply = [to |-> u, kind |-> "code_final",
                    message |-> <<"expired">>, n |-> 0]
        /\ u \notin DOMAIN codes_data
        /\ ~user_data[u].waiting_for_pin
        /\ ~user_data[u].waiting_for_email_code

\* C26: the resend command sent while waiting_for_email_code and allowed by
\* the general-request check is carried out whatever the second-factor list
\* holds, and leaves that list as it was.
C26_ResendBypassesSecondFactorCheck ==
    [][\A u \in Principals, text \in TextsTM :
          (/\ validate_message_length(text)
           /\ ~user_data[u].waiting_for_pin
           /\ user_data[u].waiting_for_email_code
           /\ lower(text) = <<"resend">>
           /\ check_request_rate_limit(request_counts[u], now).allowed
           /\ handle_text_message(u, text)) =>
              /\ twofa_attempts' = twofa_attempts
              /\ reply'.to = u
              /\ reply'.kind \in {"resent", "resend_failed"}
              /\ reply'.kind = "resent" =>
                     /\ u \in DOMAIN codes_data'
                     /\ codes_data'[u].attempts = 0
              /\ reply'.kind = "resend_failed" => u \notin DOMAIN codes_data'
              /\ user_data' = user_data]_vars

\* C26 witness: a resend was carried out while the second-factor list of
\* the principal held max_twofa_attempts times inside the window
C26_Witness ==
    \E u \in Principals :
        /\ reply = [to |-> u, kind |-> "resent", message |-> <<>>, n |-> 0]
        /\ user_data[u].waiting_for_email_code
        /\ ~check_twofa_rate_limit(twofa_attempts[u], now).allowed

\* C27: a resend replaces the challenge of the principal: when the code was
\* delivered the principal has the new challenge, with attempts 0 and the
\* expiry counted from the resend, and of the generated codes only the new
\* one verifies; when the delivery failed the principal has no challenge,
\* the old one included, and still waits for the code.
C27_ResendReplacesChallenge ==
    [][\A u \in Principals, text \in TextsTM :
          (/\ validate_message_length(text)
           /\ ~user_data[u].waiting_for_pin
           /\ user_data[u].waiting_for_email_code
           /\ lower(text) = <<"resend">>
           /\ check_request_rate_limit(request_counts[u], now).allowed
           /\ handle_text_message(u, text)) =>
              /\ user_data'[u].waiting_for_email_code
              /\ ~user_data'[u].waiting_for_pin
              /\ IF reply'.kind = "resent"
                 THEN /\ u \in DOMAIN codes_data'
                      /\ codes_data'[u].attempts = 0
                      /\ codes_data'[u].expires_at =
                             WholeSecond(now + Sec(code_expiry_minutes * 60))
                      /\ codes_data'[u].code \in GeneratedCodes
                      /\ \A c \in GeneratedCodes :
                             verify_code(FAState', u, c, now).ret.success
                                 <=> c = codes_data'[u].code
                 ELSE /\ reply'.kind = "resend_failed"
                      /\ u \notin DOMAIN codes_data']_vars

\* C27 witness: a resend failed to deliver, and the principal is left
\* waiting for the code with no challenge on file
C27_Witness ==
    \E u \in Principals :
        /\ reply = [to |-> u, kind |-> "resend_failed",
                    message |-> <<>>, n |-> 0]
        /\ user_data[u].waiting_for_email_code
        /\ ~user_data[u].waiting_for_pin
        /\ u \notin DOMAIN codes_data

\* C28: a verify made for a principal with a challenge on file at a time
\* later than the expires_at of the challenge fails as expired with
\* can_retry False and removes the challenge, whatever the code submitted
\* and the attempts used; a verify made at expires_at or earlier is never
\* answered as expired.
C28_ExpiryIsStrict ==
    [][\A u \in Principals :
          (u \in DOMAIN codes_data /\ Verify(u)) =>
              IF now > codes_data[u].expires_at
              THEN /\ fa_result' = [success |-> FALSE,
                                    message |-> <<"expired">>,
                                    can_retry |-> FALSE]
                   /\ u \notin DOMAIN codes_data'
                   /\ u \notin DOMAIN codes_file'
              ELSE fa_result'.message # <<"expired">>]_vars

\* C28 witness: the issued code itself, submitted for the first time and
\* with attempts left, was refused as expired and the challenge is gone
C28_Witness ==
    \E u \in Principals :
        LET h == fa_hist[u]
        IN  /\ h.last # <<>>
            /\ h.code # None
            /\ h.last[1].input = h.code
            /\ h.last[1].rightBefore = 0
            /\ h.last[1].wrongBefore < max_attempts
            /\ now > h.expires_at
            /\ h.last[1].ret = [success |-> FALSE, message |-> <<"expired">>,
                                can_retry |-> FALSE]
            /\ u \notin DOMAIN codes_data

\* C31: an extract call of P that returns the action leaves the token of P
\* and its expiry as they were, and the same data is accepted again now and
\* at the expiry of the token; an add_csrf call of P made while P holds an
\* unexpired token returns the action with that token and leaves the token
\* and its expiry as they were.
C31_ValidationDoesNotRotate ==
    [][\A u \in Principals :
          /\ (csrf_hist'.call # <<>> /\ Unbind(u) /\ csrf_result' # None) =>
                 LET c == csrf_hist'.call[1]
                     data == c.a \o <<Delim>> \o c.tp
                 IN  /\ UNCHANGED csrfVars
                     /\ \A t \in {now, token_expiry[u]} :
                            extract_callback_data(CSState', u, data, t).ret
                                = <<c.a>>
          /\ (/\ u \in DOMAIN user_tokens
              /\ now <= token_expiry[u]
              /\ csrf_hist'.call = <<>>
              /\ Bind(u)) =>
                 /\ UNCHANGED csrfVars
                 /\ rsplit(csrf_result').token_part = user_tokens[u]]_vars

\* C31 witness: the token generated for P was accepted at the very time of
\* its expiry and P still holds it with that expiry
C31_Witness ==
    /\ csrf_hist.call # <<>>
    /\ csrf_result # None
    /\ LET c == csrf_hist.call[1]
           g == csrf_hist.issued[c.u]
       IN  /\ g # None
           /\ c.t = g.expires_at
           /\ c.t > 0
           /\ c.u \in DOMAIN user_tokens
           /\ user_tokens[c.u] = g.token
           /\ token_expiry[c.u] = g.expires_at

\* C32: a principal has one token with one expiry or none; a token past
\* its expiry gives every call the result, and the state after it, that no
\* token gives; an add_csrf call of P made after the expiry of the token of
\* P stores a new token with expiry now + token_lifetime in place of the old
\* one and returns the action with it, and from then on data carrying the
\* old token is refused for P (the new token being another string than the
\* old one).
C32_ExpiredIsAbsent ==
    /\ [](/\ DOMAIN user_tokens = DOMAIN token_expiry
          /\ \A u \in DOMAIN user_tokens :
                 now > token_expiry[u] =>
                     LET absent == _cleanup_user_token(CSState, u)
                     IN  /\ get_user_token(CSState, u, now)
                                = get_user_token(absent, u, now)
                         /\ \A a \in HarnessActions, token \in Tokens :
                                add_csrf_to_callback_data(CSState, u, a, now, token)
                                    = add_csrf_to_callback_data(absent, u, a,
                                                                now, token)
                         /\ \A a \in HarnessActions, tp \in TokenParts :
                                extract_callback_data(CSState, u,
                                    a \o <<Delim>> \o tp, now)
                                    = extract_callback_data(absent, u,
                                          a \o <<Delim>> \o tp, now))
    /\ [][\A u \in Principals :
             (/\ u \in DOMAIN user_tokens
              /\ now > token_expiry[u]
              /\ csrf_hist'.call = <<>>
              /\ Bind(u)) =>
                 /\ u \in DOMAIN user_tokens'
                 /\ token_expiry'[u] = now + Sec(token_lifetime)
                 /\ rsplit(csrf_result').token_part = user_tokens'[u]
                 /\ user_tokens'[u] # user_tokens[u] =>
                        \A a \in HarnessActions :
                            extract_callback_data(CSState', u,
                                a \o <<Delim>> \o user_tokens[u], now).ret
                                = None]_vars

\* C32 witness: an add_csrf call made later than a lifetime after the start
\* has just given the probed principal a token that expires a lifetime on
C32_Witness ==
    /\ now > Sec(token_lifetime)
    /\ csrf_hist.call = <<>>
    /\ probe.u \in DOMAIN user_tokens
    /\ token_expiry[probe.u] = now + Sec(token_lifetime)
    /\ csrf_result # None
    /\ HasDelim(csrf_result)
    /\ rsplit(csrf_result).token_part = user_tokens[probe.u]

\* C33: no principal waits for the gate secret and for the code at the same
\* time: in every state at most one of waiting_for_pin and
\* waiting_for_email_code is set.
C33_OneWaitingFlag ==
    \A u \in Principals :
        ~(user_data[u].waiting_for_pin /\ user_data[u].waiting_for_email_code)

\* C34: a principal is added to pending_requests only in the step in which
\* its code is verified with success, sent while it waits for the code with
\* a challenge on file, and after it gave the gate secret; a principal waits
\* for the code only after it gave the gate secret.
C34_PendingOnlyAfterBothFactors ==
    /\ [](\A p \in Principals :
              user_data[p].waiting_for_email_code => stage[p].gate)
    /\ [][\A p \in Principals :
             CountOf(allowed_users'.pending_requests, p)
                 > CountOf(allowed_users.pending_requests, p) =>
                 /\ reply' = [to |-> p, kind |-> "code_ok",
                              message |-> <<"confirmed">>, n |-> 0]
                 /\ user_data[p].waiting_for_email_code
                 /\ ~user_data[p].waiting_for_pin
                 /\ p \in DOMAIN codes_data
                 /\ \E text \in Texts :
                        /\ handle_text_message(p, text)
                        /\ verify_code(FAState, p, text, now).ret.success
                 /\ stage[p].gate
                 /\ stage'[p].verified]_vars

\* C34 witness: the code of a principal was just verified and the principal
\* is in pending_requests
C34_Witness ==
    \E p \in Principals :
        /\ reply.to = p
        /\ reply.kind = "code_ok"
        /\ CountOf(allowed_users.pending_requests, p) = 1
        /\ stage[p].gate
        /\ stage[p].verified

(* ------------------------- dispatch harness --------------------------- *)
\* Two updates of one principal that arrive together, a code and the resend
\* command, are handed to handle_text_message in either order.  A handler
\* runs from one await to the next without interruption: everything up to
\* its first reply, and after that what is left of it, which for a code is
\* the request to the admin (verified) or the clearing of the flag (refused
\* for good).  The run starts where the probed principal has sent /group and
\* the gate secret at time 0 and waits for the code.
InitCC ==
    /\ InitClock
    /\ InitCSRF
    /\ InitAuth
    /\ probe \in [u : Principals, c : {"dispatch"}]
    /\ pin_attempts = [u \in Principals |-> <<>>]
    /\ twofa_attempts = [u \in Principals |-> <<>>]
    /\ request_counts = [u \in Principals |-> IF u = probe.u THEN <<0>> ELSE <<>>]
    /\ rl_result = None
    /\ calls = [u \in Principals |-> [c \in Categories |-> <<>>]]
    /\ \E code \in GeneratedCodes :
          LET r == send_verification_code([codes |-> <<>>, file |-> <<>>],
                       probe.u, Username(probe.u), 0, code, TRUE)
          IN  /\ codes_data = r.codes
              /\ codes_file = r.file
    /\ fa_result = None
    /\ fa_hist = [u \in Principals |-> NoHist]
    /\ user_data = [u \in Principals |->
                       [waiting_for_pin |-> FALSE,
                        waiting_for_email_code |-> u = probe.u]]
    /\ reply = [to |-> probe.u, kind |-> "pin_ok", message |-> <<>>, n |-> 0]
    /\ notify = NoReply
    /\ logged = None
    /\ stage = [u \in Principals |-> [NoStage EXCEPT !.gate = u = probe.u]]
    /\ last = None
    /\ flow = [u \in Principals |-> <<>>]
    /\ nsteps = 0
    /\ inflight = None
    /\ search_results = <<>>
    /\ current_page = <<>>

\* mutant: updates are handed to their handlers as they arrive
Sequential_concurrent == TRUE

\* Application.builder().token(...).build() leaves concurrent_updates off and
\* the handlers are registered blocking: an update is handed to its handler
\* only when the handler of the update before it has returned
Sequential == inflight = None

\* the text of u is a code that verify_code accepts or refuses for good
Defers(u, text) ==
    /\ validate_message_length(text)
    /\ check_request_rate_limit(request_counts[u], now).allowed
    /\ ~user_data[u].waiting_for_pin
    /\ user_data[u].waiting_for_email_code
    /\ lower(text) # <<"resend">>
    /\ validate_twofa_code(text)
    /\ check_twofa_rate_limit(twofa_attempts[u], now).allowed
    /\ ~verify_code(FAState, u, text, now).ret.can_retry

\* handle_text_message for such a code, up to its first reply (bot.py
\* 189-296 and 298-307)
CodeBegin(u, text) ==
    LET request_limit == check_request_rate_limit(request_counts[u], now)
        twofa_limit == check_twofa_rate_limit(twofa_attempts[u], now)
        result == verify_code(FAState, u, text, now)
    IN  /\ request_counts' = [request_counts EXCEPT ![u] = request_limit.attempts]
        /\ twofa_attempts' = [twofa_attempts EXCEPT ![u] = twofa_limit.attempts]
        /\ codes_data' = result.codes
        /\ codes_file' = result.file
        /\ IF result.ret.success
           THEN /\ Flags(u, user_data[u].waiting_for_pin, FALSE)
                /\ Answer(u, "code_ok", result.ret.message, 0)
                /\ inflight' = <<[u |-> u, rest |-> "request"]>>
           ELSE /\ UNCHANGED user_data
                /\ Answer(u, "code_final", result.ret.message, 0)
                /\ inflight' = <<[u |-> u, rest |-> "flag"]>>
        /\ Silent
        /\ NoLog
        /\ UNCHANGED <<clockVars, pin_attempts, csrfVars, authVars, rlHarness,
                       faHarness, csrfHarness, authHarness, search_results,
                       current_page>>
        /\ Recorded(u, "text", None, text)

\* an update with a text of u is handed to handle_text_message
BeginCC(u, text) ==
    /\ Sequential
    /\ probe.u = u
    /\ IF Defers(u, text)
       THEN CodeBegin(u, text)
       ELSE handle_text_message(u, text)

\* the suspended handler goes on after its reply: the request to the admin
\* (bot.py 297) or the clearing of waiting_for_email_code (bot.py 311)
ResumeCC(u) ==
    /\ inflight # None
    /\ inflight[1].u = u
    /\ IF inflight[1].rest = "request"
       THEN /\ send_access_request_to_admin(u)
            /\ UNCHANGED user_data
       ELSE /\ Flags(u, user_data[u].waiting_for_pin, FALSE)
            /\ UNCHANGED <<csrfVars, authVars, notify>>
    /\ inflight' = None
    /\ UNCHANGED <<clockVars, rlVars, faVars, rlHarness, faHarness,
                   csrfHarness, authHarness, reply, logged, histVars,
                   search_results, current_page>>

NextCC ==
    \/ \E u \in Principals, text \in Texts : BeginCC(u, text)
    \/ \E u \in Principals : ResumeCC(u)
    \/ \E d \in DeltasTM : TickTM(d)

SpecCC == InitCC /\ [][NextCC]_vars

C36_RoundTrip ==
    \A u \in Principals, a \in HarnessActions \ {<<>>}, token \in Tokens :
        LET b == add_csrf_to_callback_data(CSState, u, a, now, token)
            bound == [tokens |-> b.tokens, expiry |-> b.expiry]
        IN  \A t \in {now, b.expiry[u]} :
                extract_callback_data(bound, u, b.ret, t)
                    = [tokens |-> b.tokens, expiry |-> b.expiry, ret |-> <<a>>]

\* C36 witness: the action with the separator inside, bound with the token
\* the principal holds, was given to extract_callback_data and came back
C36_Witness ==
    /\ csrf_hist.call # <<>>
    /\ LET c == csrf_hist.call[1]
       IN  /\ c.a = <<"a", Delim, "b">>
           /\ c.live
           /\ c.tp = c.held
           /\ csrf_result = <<c.a>>

(* ------------------- second-factor window harness --------------------- *)
\* /group, the text messages of the probed principal and the two decisions
\* of the admin on it, with the clock advancing by exactly one
\* second-factor window
NextSW ==
    \/ \E u \in Principals : group_command(u)
    \/ \E u \in Principals, text \in Texts \ {<<"RESEND">>} :
           handle_text_message(u, text)
    \/ \E k \in {"approve_", "deny_"} :
           /\ ADMIN_USER_ID \in DOMAIN user_tokens
           /\ handle_callback_query(ADMIN_USER_ID,
                  <<k, str(probe.u), Delim>> \o user_tokens[ADMIN_USER_ID])
    \/ TickTM(Sec(twofa_lockout_duration))

SpecSW == InitTM /\ [][NextSW]_vars

\* C37 as stated: no step of the pipeline removes from the second-factor
\* list of a principal a time that is still inside the window, and whenever
\* a submitted code is passed to verify_code, the closed interval of
\* twofa_lockout_duration seconds that ends at that time holds at most
\* max_twofa_attempts such codes of the principal.
C37_ClosedIntervalBound ==
    [][\A u \in Principals :
          LET f == SelectSeq(twofa_attempts[u],
                      LAMBDA a : now' - a < Sec(twofa_lockout_duration))
              g == SelectSeq(twofa_attempts'[u],
                      LAMBDA a : now' - a < Sec(twofa_lockout_duration))
              inside == {i \in DOMAIN twofa_attempts[u] :
                            now - twofa_attempts[u][i]
                                <= Sec(twofa_lockout_duration)}
          IN  /\ Len(f) <= Len(g) /\ SubSeq(g, 1, Len(f)) = f
              /\ (/\ reply'.to = u
                  /\ reply'.kind \in {"code_ok", "code_retry", "code_final"}
                  /\ nsteps' # nsteps) =>
                     Cardinality(inside) + 1 <= max_twofa_attempts]_vars

\* C37 amended: no step of the pipeline removes from the second-factor list
\* of a principal a time that is still inside the window; every submitted
\* code that is passed to verify_code adds its time to the list; and the
\* list never holds more than max_twofa_attempts times inside the window:
\* the half-open interval of twofa_lockout_duration seconds that ends at any
\* time holds at most max_twofa_attempts compared codes of the principal.
C37_WindowNeverCleared ==
    /\ [](\A u \in Principals :
             Len(SelectSeq(twofa_attempts[u],
                     LAMBDA a : now - a < Sec(twofa_lockout_duration)))
                 <= max_twofa_attempts)
    /\ [][\A u \in Principals :
             LET f == SelectSeq(twofa_attempts[u],
                         LAMBDA a : now' - a < Sec(twofa_lockout_duration))
                 g == SelectSeq(twofa_attempts'[u],
                         LAMBDA a : now' - a < Sec(twofa_lockout_duration))
             IN  /\ Len(f) <= Len(g) /\ SubSeq(g, 1, Len(f)) = f
                 /\ (/\ reply'.to = u
                     /\ reply'.kind \in {"code_ok", "code_retry", "code_final"}
                     /\ nsteps' # nsteps) =>
                        g = Append(f, now)]_vars

\* C37 witness: a code of a principal was refused by the second-factor
\* check while the challenge on file was a new one, issued by a resend or a
\* restart after the max_twofa_attempts codes that fill the window
C37_Witness ==
    \E u \in Principals :
        /\ reply.to = u
        /\ reply.kind = "twofa_rate_limited"
        /\ u \in DOMAIN codes_data
        /\ codes_data[u].attempts = 0
        /\ Len(twofa_attempts[u]) = max_twofa_attempts

\* C38: every challenge that is on file in codes_data has
\* 0 <= attempts < max_attempts, and a verify that reports the attempts
\* exhausted is the one that counted the last wrong code of the challenge
\* and deleted it: verify_code never meets a challenge whose attempts are
\* already at max_attempts.
C38_AttemptsBelowMax ==
    /\ \A u \in DOMAIN codes_data :
           /\ codes_data[u].max_attempts = max_attempts
           /\ 0 <= codes_data[u].attempts
           /\ codes_data[u].attempts < codes_data[u].max_attempts
    /\ \A u \in Principals :
           (/\ fa_hist[u].last # <<>>
            /\ fa_hist[u].last[1].ret.message = <<"exhausted">>) =>
               /\ fa_hist[u].last[1].wrongBefore = max_attempts - 1
               /\ fa_hist[u].last[1].input # fa_hist[u].code
               /\ u \notin DOMAIN codes_data

\* C38 witness: the wrong code that brought the attempts of a challenge to
\* max_attempts was verified and the challenge is gone, while the other
\* principal has a challenge on file
C38_Witness ==
    \E u \in Principals :
        /\ fa_hist[u].last # <<>>
        /\ fa_hist[u].last[1].ret.message = <<"exhausted">>
        /\ fa_hist[u].wrong = max_attempts
        /\ u \notin DOMAIN codes_data
        /\ DOMAIN codes_data # {}

\* C40: in every state, an issue, a reissue or a verify for a principal,
\* with any code and any outcome of the delivery, leaves every challenge of
\* another principal that has not expired as it is, and gives no challenge
\* to a principal that had none; a verify leaves the expired challenges of
\* the others as well, while an issue, the one inside a reissue included,
\* removes them.
C40_OthersUntouched ==
    \A u \in Principals : \A q \in Principals \ {u} :
        LET had == q \in DOMAIN codes_data
            expired == had /\ _is_code_expired(codes_data[q].expires_at, now)
            Same(r) == /\ IF had
                          THEN q \in DOMAIN r.codes /\ r.codes[q] = codes_data[q]
                          ELSE q \notin DOMAIN r.codes
                       /\ IF q \in DOMAIN codes_file
                          THEN q \in DOMAIN r.file /\ r.file[q] = codes_file[q]
                          ELSE q \notin DOMAIN r.file
            Issued_(r) == IF expired
                          THEN q \notin DOMAIN r.codes /\ q \notin DOMAIN r.file
                          ELSE Same(r)
        IN  /\ \A input_code \in GeneratedCodes :
                   Same(verify_code(FAState, u, input_code, now))
            /\ \A code \in GeneratedCodes, sent \in BOOLEAN :
                   /\ Issued_(send_verification_code(FAState, u, Username(u),
                                                     now, code, sent))
                   /\ Issued_(resend_code(FAState, u, Username(u),
                                          now, code, sent))

\* C40 witness: a principal holds a challenge that has not expired, and the
\* challenge of the other principal, never verified and never reissued, is
\* gone: the issue removed it as expired
C40_Witness ==
    \E u \in Principals : \E q \in Principals \ {u} :
        /\ u \in DOMAIN codes_data
        /\ ~_is_code_expired(codes_data[u].expires_at, now)
        /\ fa_hist[q].code # None
        /\ fa_hist[q].last = <<>>
        /\ q \notin DOMAIN codes_data

(* --------------------------- listing harness -------------------------- *)
\* The bot starts with the probed principal among the approved users of
\* allowed_users.json.  Every principal sends /list and /admin, the probed
\* one sends a text, and every principal that holds a token sends, bound
\* with it, the buttons of a listing (an entry, the page after the first,
\* back to the results) and the button that removes a user.
InitSR ==
    /\ InitClock
    /\ InitRateLimiter
    /\ InitEmail2FA
    /\ InitCSRF
    /\ InitBot
    /\ probe \in [u : Principals, c : {"listing"}]
    /\ allowed_users =
           [users |-> <<[user_id |-> probe.u, username |-> Username(probe.u),
                         approved_at |-> 0]>>,
            pending_requests |-> <<>>]
    /\ users_file = allowed_users
    /\ auth_result = None

NextSR ==
    \/ \E u \in Principals : list_command(u)
    \/ \E u \in Principals : admin_command(u)
    \/ \E u \in Principals : handle_text_message(u, <<"resend">>)
    \/ \E u \in DOMAIN user_tokens :
           \E a \in {<<"e_", "e">>, <<"p_", "1">>, <<"bs">>}
                     \cup {<<"rm_", str(x)>> : x \in Principals} :
               handle_callback_query(u, a \o <<Delim>> \o user_tokens[u])

SpecSR == InitSR /\ [][NextSR]_vars

\* C39: an update of a principal that is not approved when the update is
\* handled is answered with no entry and no listing.
C39_UnapprovedSeesNothing ==
    [][\A u \in Principals :
          (/\ nsteps' # nsteps
           /\ reply'.to = u
           /\ ~is_user_allowed(allowed_users, u)) =>
              reply'.kind \notin {"results", "entry"}]_vars

====
